---- MODULE Spec2Model ----
(***************************************************************************)
(* Model of ratarmountcore/SquashFSMountSource.py: the seekable virtual    *)
(* file SquashFSFile over one inode of a SquashFS image, and the shared    *)
(* byte source of the image that all virtual files read through.           *)
(*                                                                         *)
(* Bytes are naturals.  The image is a sequence of bytes; byte offset k of *)
(* the image is element k + 1 of the sequence.                             *)
(***************************************************************************)
EXTENDS Integers, Sequences, FiniteSets, TLC

\* ------------------------------------------------------------------ bounds
\* Largest number of full data blocks of a generated inode.
MaxFullBlocks == 2
\* Largest size passed to read (besides -1, which reads to the end).
MaxRead == 4
\* Largest number of entries (the root directory included) of a generated tree.
MaxNodes == 4

\* -------------------------------------------------------------- primitives
Min(a, b) == IF a < b THEN a ELSE b
Max(a, b) == IF a > b THEN a ELSE b

\* None, as the value of an absent fragment: false in a condition.
None == <<>>

\* b'\0' * n
Zeros(n) == [i \in 1..n |-> 0]

\* Python slice s[lo : hi] for 0 <= lo (both ends are clamped to len(s)).
Slice(s, lo, hi) == SubSeq(s, lo + 1, Min(hi, Len(s)))

\* io.SEEK_SET, io.SEEK_CUR, io.SEEK_END
SEEK_SET == 0
SEEK_CUR == 1
SEEK_END == 2

\* ----------------------------------------------------- block descriptors
\* A block descriptor is 0 for a sparse block, else the stored size of the
\* block, plus bit 24 when the block is stored uncompressed.
SQUASHFS_COMPRESSED_BIT_BLOCK == 2^24
SQUASHFS_COMPRESSED_SIZE_BLOCK(block) == block % SQUASHFS_COMPRESSED_BIT_BLOCK
SQUASHFS_COMPRESSED_BLOCK(block) == block < SQUASHFS_COMPRESSED_BIT_BLOCK

\* ------------------------------------------------------------ block codec
\* The block codec of the modelled images: the first stored byte counts how
\* often the last literal is repeated after the literals that follow it.
Uncompress(src) ==
    IF src = <<>> THEN <<>>
    ELSE Tail(src) \o [i \in 1..Head(src) |-> src[Len(src)]]

\* Number of elements at the end of p that repeat the element before them.
RECURSIVE TrailingRepeats(_)
TrailingRepeats(p) ==
    IF Len(p) < 2 \/ p[Len(p)] # p[Len(p) - 1] THEN 0
    ELSE 1 + TrailingRepeats(SubSeq(p, 1, Len(p) - 1))

\* What the image builder stores for a compressed block with contents p.
Compress(p) ==
    IF p = <<>> THEN <<>>
    ELSE <<TrailingRepeats(p)>> \o SubSeq(p, 1, Len(p) - TrailingRepeats(p))

\* ------------------------------------------------------- the byte source
\* fd.seek(start); fd.read(count) on the image's file object.
FdRead(disk, pos, count) == Slice(disk, pos, pos + count)

\* SquashFsImage._read_data_block(start, block): seek to the block, read its
\* stored bytes and decompress them unless they are stored uncompressed.
DecodeBlock(data, block) ==
    IF SQUASHFS_COMPRESSED_BLOCK(block) THEN Uncompress(data) ELSE data

ReadDataBlock(disk, start, block) ==
    DecodeBlock(FdRead(disk, start, SQUASHFS_COMPRESSED_SIZE_BLOCK(block)), block)

\* ----------------------------------------------------- generated images
\* A layout describes one regular file: the kind of each full block, the
\* kind and length of its tail, and where its fragment lies in the shared
\* fragment block.
BlockKinds == {"sparse", "comp", "raw"}
TailKinds == {"none", "sparse", "raw", "frag"}

\* Contents of a block of length n at file offset base: a block stored raw
\* holds the numbers of its bytes in the file, counted from 1; a
\* compressible block is one byte followed by a run; no byte of them is 0.
PlainBlock(kind, base, n) ==
    CASE kind = "sparse" -> Zeros(n)
      [] kind = "raw"    -> [j \in 1..n |-> base + j]
      [] OTHER           -> [j \in 1..n |-> base + (IF j = 1 THEN 1 ELSE 2)]

StoredBlock(kind, base, n) ==
    CASE kind = "sparse" -> <<>>
      [] kind = "raw"    -> PlainBlock(kind, base, n)
      [] OTHER           -> Compress(PlainBlock(kind, base, n))

Descriptor(kind, base, n) ==
    CASE kind = "sparse" -> 0
      [] kind = "raw"    -> Len(StoredBlock(kind, base, n)) + SQUASHFS_COMPRESSED_BIT_BLOCK
      [] OTHER           -> Len(StoredBlock(kind, base, n))

\* Contents of the shared fragment block (tails of several files).
FragmentPlain(kind, bs) == PlainBlock(kind, 4 * bs, bs)

\* Where the first data block of every generated inode is stored.
DataStart == 3

\* The kinds of m full blocks: block i has kind number (first + i * step) mod 3,
\* so that every kind follows every kind, itself included.
KindNumber(k) == CASE k = 0 -> "sparse" [] k = 1 -> "comp" [] OTHER -> "raw"
KindSequences(m) ==
    IF m = 0 THEN { <<>> }
    ELSE { [i \in 1..m |-> KindNumber((first + (i - 1) * step) % 3)] :
             first \in 0..2, step \in 0..2 }

Layouts(bs, maxFull) ==
    { [bs |-> bs, kinds |-> k, tail |-> t, tailLen |-> n, fragKind |-> fk, fragOff |-> fo] :
        k \in UNION { KindSequences(m) : m \in 0..maxFull },
        t \in TailKinds,
        n \in 0..(bs - 1),
        fk \in {"comp", "raw"},
        fo \in 0..(bs - 1) }

\* A tail exists iff it has bytes; a fragment stored raw lies at the end of
\* the fragment block, one in a compressed fragment block at its start.
WellFormedLayout(l) ==
    /\ (l.tail = "none") = (l.tailLen = 0)
    /\ l.tail # "frag" => l.fragKind = "raw" /\ l.fragOff = 0
    /\ l.tail = "frag" =>
          l.fragOff = (IF l.fragKind = "raw" THEN l.bs - l.tailLen ELSE 0)

\* The kinds of all blocks in the block list (the tail block included).
LayoutBlockKinds(l) ==
    IF l.tail \in {"sparse", "raw"} THEN Append(l.kinds, l.tail) ELSE l.kinds

LayoutBlockLen(l, i) == IF i < Len(l.kinds) THEN l.bs ELSE l.tailLen

RECURSIVE ConcatBlocks(_, _, _)
ConcatBlocks(l, i, stored) ==
    IF i >= Len(LayoutBlockKinds(l)) THEN <<>>
    ELSE (IF stored THEN StoredBlock(LayoutBlockKinds(l)[i + 1], i * l.bs, LayoutBlockLen(l, i))
                    ELSE PlainBlock(LayoutBlockKinds(l)[i + 1], i * l.bs, LayoutBlockLen(l, i)))
         \o ConcatBlocks(l, i + 1, stored)

LayoutFragStored(l) ==
    IF l.fragKind = "raw" THEN FragmentPlain("raw", l.bs)
    ELSE Compress(FragmentPlain("comp", l.bs))

\* The image: superblock area, the data blocks back to back, the fragment block.
LayoutDisk(l) ==
    [i \in 1..DataStart |-> 1] \o ConcatBlocks(l, 0, TRUE)
        \o (IF l.tail = "frag" THEN LayoutFragStored(l) ELSE <<>>)

\* The bytes of the file as the image builder packed them.
LayoutContents(l) ==
    ConcatBlocks(l, 0, FALSE)
        \o (IF l.tail = "frag"
            THEN SubSeq(FragmentPlain(l.fragKind, l.bs), l.fragOff + 1, l.fragOff + l.tailLen)
            ELSE <<>>)

\* The superblock and the file object of the image of the layout.
LayoutImage(l) == [ block_size |-> l.bs, fd |-> LayoutDisk(l) ]

\* The inode of the layout; block_list and fragment are what
\* image._read_block_list and image._read_fragment return for it.
LayoutInode(l) ==
    [ data        |-> Len(l.kinds) * l.bs + l.tailLen,
      start       |-> DataStart,
      blocks      |-> Len(LayoutBlockKinds(l)),
      block_list  |-> [i \in 1..Len(LayoutBlockKinds(l)) |->
                         Descriptor(LayoutBlockKinds(l)[i], (i - 1) * l.bs, LayoutBlockLen(l, i - 1))],
      frag_bytes  |-> IF l.tail = "frag" THEN l.tailLen ELSE 0,
      offset      |-> l.fragOff,
      fragment    |-> IF l.tail = "frag"
                      THEN << DataStart + Len(ConcatBlocks(l, 0, TRUE)),
                              IF l.fragKind = "raw"
                              THEN Len(LayoutFragStored(l)) + SQUASHFS_COMPRESSED_BIT_BLOCK
                              ELSE Len(LayoutFragStored(l)) >>
                      ELSE None ]

\* Block size 4, file size 7, one compressed block of 3 stored bytes and one
\* sparse block.
ScenarioLayout ==
    [bs |-> 4, kinds |-> <<"comp">>, tail |-> "sparse", tailLen |-> 3,
     fragKind |-> "raw", fragOff |-> 0]

InputLayouts ==
    { x \in Layouts(2, MaxFullBlocks) : WellFormedLayout(x) } \cup { ScenarioLayout }

\* ------------------------------------------------------- SquashFSFile
\* Lines 165-175 with a sparse block advancing the running offset by the
\* length of the block.
RECURSIVE CompressedBlockOffsets_CountSparse(_, _, _, _, _)
CompressedBlockOffsets_CountSparse(blockList, i, compressedBlockOffset, size, bs) ==
    IF i >= Len(blockList) THEN <<>>
    ELSE LET block     == blockList[i + 1]
             blockSize == IF i = size \div bs THEN size % bs ELSE bs
         IN  IF block # 0
             THEN <<compressedBlockOffset>>
                  \o CompressedBlockOffsets_CountSparse(blockList, i + 1,
                        compressedBlockOffset + SQUASHFS_COMPRESSED_SIZE_BLOCK(block), size, bs)
             ELSE <<-blockSize>>
                  \o CompressedBlockOffsets_CountSparse(blockList, i + 1,
                        compressedBlockOffset + blockSize, size, bs)

\* SquashFSFile.__init__, lines 165-175: the compressed start offset of every
\* block, or minus the block's length for a sparse block.
RECURSIVE CompressedBlockOffsets(_, _, _, _, _)
CompressedBlockOffsets(blockList, i, compressedBlockOffset, size, bs) ==
    IF i >= Len(blockList) THEN <<>>
    ELSE LET block     == blockList[i + 1]
             blockSize == IF i = size \div bs THEN size % bs ELSE bs
         IN  IF block # 0
             THEN <<compressedBlockOffset>>
                  \o CompressedBlockOffsets(blockList, i + 1,
                        compressedBlockOffset + SQUASHFS_COMPRESSED_SIZE_BLOCK(block), size, bs)
             ELSE <<-blockSize>>
                  \o CompressedBlockOffsets(blockList, i + 1, compressedBlockOffset, size, bs)

\* BytesIO.read(size) at position pos of contents bio: the bytes and the new
\* position.  A negative size reads all that is left; a position at or
\* beyond the end reads nothing.
BytesIORead(bio, pos, size) ==
    LET avail == IF pos >= Len(bio) THEN 0 ELSE Len(bio) - pos
        count == IF size < 0 THEN avail ELSE Min(size, avail)
    IN  [ data |-> SubSeq(bio, pos + 1, pos + count), pos |-> pos + count ]

\* _refillBuffer with every sparse block taken as a full block: line 197 and
\* the remainder of line 198 left out.
RefillPlan_SparseFull(f, blockIndex) ==
    LET plan(kind, start, block, n) ==
            [ kind |-> kind, start |-> start, block |-> block, n |-> n ]
    IN  IF ~(blockIndex >= 0)
        THEN plan("raise", 0, 0, 0)
        ELSE IF blockIndex < Len(f.blockList)
        THEN LET block == f.blockList[blockIndex + 1]
             IN  IF block # 0
                 THEN plan("block", f.compressedBlockOffsets[blockIndex + 1], block, 0)
                 ELSE plan("zeros", 0, 0, f.blockSize)
        ELSE IF f.fragment # None /\ blockIndex = Len(f.blockList)
        THEN plan("fragment", f.fragment[1], f.fragment[2], 0)
        ELSE plan("empty", 0, 0, 0)

\* SquashFSFile._refillBuffer(blockIndex), lines 190-204: what the block
\* index asks for: a failed assertion, a data block or a fragment block read
\* from the byte source, zero bytes, or nothing.
RefillPlan(f, blockIndex) ==
    LET plan(kind, start, block, n) ==
            [ kind |-> kind, start |-> start, block |-> block, n |-> n ]
    IN  IF ~(blockIndex >= 0)
        THEN plan("raise", 0, 0, 0)
        ELSE IF blockIndex < Len(f.blockList)
        THEN LET block == f.blockList[blockIndex + 1]
             IN  IF block # 0
                 THEN plan("block", f.compressedBlockOffsets[blockIndex + 1], block, 0)
                 ELSE IF (blockIndex + 1) * f.blockSize >= f.size
                      THEN plan("zeros", 0, 0, Max(0, f.size - blockIndex * f.blockSize))
                      ELSE plan("zeros", 0, 0, f.blockSize)
        ELSE IF f.fragment # None /\ blockIndex = Len(f.blockList)
        THEN plan("fragment", f.fragment[1], f.fragment[2], 0)
        ELSE plan("empty", 0, 0, 0)

PlanReadsSource(plan) == plan.kind \in {"block", "fragment"}

\* _refillBuffer with line 201 multiplying by self._blockSize instead of the
\* local blockSize.
RefillBytes_ZerosOfBlockSize(f, plan, decoded) ==
    CASE plan.kind = "block"    -> decoded
      [] plan.kind = "fragment" -> Slice(decoded, f.inodeOffset, f.inodeOffset + f.fragBytes)
      [] plan.kind = "zeros"    -> Zeros(f.blockSize)
      [] OTHER                  -> <<>>

\* The buffer that _refillBuffer stores for a plan, given the decoded block
\* that _read_data_block returned when the plan reads the byte source.
RefillBytes(f, plan, decoded) ==
    CASE plan.kind = "block"    -> decoded
      [] plan.kind = "fragment" -> Slice(decoded, f.inodeOffset, f.inodeOffset + f.fragBytes)
      [] plan.kind = "zeros"    -> Zeros(plan.n)
      [] OTHER                  -> <<>>

\* The file after lines 187-188 of _refillBuffer.
RefillEnter(f, blockIndex) == [f EXCEPT !.blockIndex = blockIndex, !.buffer = <<>>]

\* The file after line 206 of _refillBuffer.
RefillStore(f, buf) == [f EXCEPT !.buffer = buf, !.bio = buf, !.bioPos = 0]

\* SquashFSFile._refillBuffer(blockIndex) on file f, run without
\* interruption: the file afterwards, whether the assertion failed, and the
\* load done: the block index, the number of reads of the byte source, the
\* position of the byte source after them, and the buffer produced.  When
\* the assertion fails, _bufferIO keeps its old contents and position.
RefillBuffer(disk, f, blockIndex) ==
    LET g    == RefillEnter(f, blockIndex)
        plan == RefillPlan(g, blockIndex)
        buf  == RefillBytes(g, plan, ReadDataBlock(disk, plan.start, plan.block))
    IN  IF plan.kind = "raise"
        THEN [ f |-> g, raised |-> TRUE, loads |-> <<>> ]
        ELSE [ f      |-> RefillStore(g, buf),
               raised |-> FALSE,
               loads  |-> << [ index  |-> blockIndex,
                               io     |-> IF PlanReadsSource(plan) THEN 1 ELSE 0,
                               fdEnd  |-> Min(Len(disk),
                                              plan.start + SQUASHFS_COMPRESSED_SIZE_BLOCK(plan.block)),
                               buffer |-> buf ] >> ]

\* SquashFSFile.__init__(image, inode), lines 146-183: the fields before the
\* first block is loaded.  No generated descriptor equals
\* SQUASHFS_INVALID_FRAG, which line 162 drops from the block list.
FileFields(img, ino) ==
    LET blockList == IF ino.blocks # 0 THEN ino.block_list ELSE <<>>
    IN  [ offset                 |-> 0,
          size                   |-> ino.data,
          blockSize              |-> img.block_size,
          lastBlockIndex         |-> ino.data \div img.block_size,
          blockList              |-> blockList,
          compressedBlockOffsets |-> CompressedBlockOffsets(blockList, 0, ino.start,
                                         ino.data, img.block_size),
          fragment               |-> IF ino.frag_bytes # 0 THEN ino.fragment ELSE None,
          inodeOffset            |-> ino.offset,
          fragBytes              |-> ino.frag_bytes,
          blockIndex             |-> 0,
          buffer                 |-> <<>>,
          bio                    |-> <<>>,
          bioPos                 |-> 0,
          closed                 |-> FALSE ]   \* io.IOBase.closed

\* SquashFSImage.open(inode): SquashFSFile.__init__ with its call of
\* _refillBuffer(0) at line 184, as file and loads.
OpenFile(img, ino) == RefillBuffer(img.fd, FileFields(img, ino), 0)

NewFile(img, ino) == OpenFile(img, ino).f

\* read1 without lines 224-226: the next block is never loaded.
Read1_NoNextBlock(disk, f, size) ==
    LET r == BytesIORead(f.bio, f.bioPos, size)
    IN  [ f |-> [f EXCEPT !.bioPos = r.pos], data |-> r.data, loads |-> <<>>,
          raised |-> FALSE ]

\* SquashFSFile.read1(size): the file afterwards, the bytes returned and the
\* loads done.
Read1(disk, f, size) ==
    LET r == BytesIORead(f.bio, f.bioPos, size)
        g == [f EXCEPT !.bioPos = r.pos]
    IN  IF r.data # <<>> \/ f.buffer = <<>>
        THEN [ f |-> g, data |-> r.data, loads |-> <<>>, raised |-> FALSE ]
        ELSE LET n == RefillBuffer(disk, g, g.blockIndex + 1)
                 q == BytesIORead(n.f.bio, n.f.bioPos, size)
             IN  IF n.raised
                 THEN [ f |-> n.f, data |-> <<>>, loads |-> n.loads, raised |-> TRUE ]
                 ELSE [ f |-> [n.f EXCEPT !.bioPos = q.pos], data |-> q.data,
                        loads |-> n.loads, raised |-> FALSE ]

\* SquashFSFile.read(size): the loop over read1, carrying the bytes read so
\* far and the loads done so far.
RECURSIVE ReadLoop(_, _, _, _, _)
ReadLoop(disk, f, size, result, loads) ==
    IF ~(size < 0 \/ Len(result) < size)
    THEN [ f |-> f, data |-> result, loads |-> loads, raised |-> FALSE ]
    ELSE LET r == Read1(disk, f, IF size < 0 THEN size ELSE size - Len(result))
         IN  IF r.raised
             THEN [ f |-> r.f, data |-> <<>>, loads |-> loads \o r.loads, raised |-> TRUE ]
             ELSE IF r.data = <<>>
             THEN [ f |-> r.f, data |-> result, loads |-> loads \o r.loads, raised |-> FALSE ]
             ELSE ReadLoop(disk, r.f, size, result \o r.data, loads \o r.loads)

Read(disk, f, size) == ReadLoop(disk, f, size, <<>>, <<>>)

\* SquashFSFile.tell()
Tell(f) == f.offset

\* seek without line 270 when the buffer is kept: the cursor inside the
\* buffer is not moved.
Seek_KeepCursor(disk, f, offsetArg, whence) ==
    LET here   == Tell(f)
        offset == IF whence = SEEK_CUR THEN offsetArg + here
                  ELSE IF whence = SEEK_END THEN offsetArg + f.size
                  ELSE offsetArg
        g      == [f EXCEPT !.offset = Max(0, Min(offset, f.size))]
        bufferOffset == g.blockIndex * g.blockSize
        reload == offset < bufferOffset \/ offset >= bufferOffset + Len(g.buffer)
        n      == IF reload
                  THEN RefillBuffer(disk, g, offset \div g.blockSize)
                  ELSE [ f |-> g, raised |-> FALSE, loads |-> <<>> ]
        pos    == IF reload THEN offset - n.f.blockIndex * n.f.blockSize ELSE g.bioPos
    IN  IF n.raised \/ pos < 0
        THEN [ f |-> n.f, result |-> -1, loads |-> n.loads, raised |-> TRUE ]
        ELSE LET h == [n.f EXCEPT !.bioPos = pos]
             IN  [ f |-> h, result |-> Tell(h), loads |-> n.loads, raised |-> FALSE ]

\* seek with line 266 storing the start of the target's block.
Seek_OffsetOfBlock(disk, f, offsetArg, whence) ==
    LET here   == Tell(f)
        offset == IF whence = SEEK_CUR THEN offsetArg + here
                  ELSE IF whence = SEEK_END THEN offsetArg + f.size
                  ELSE offsetArg
        clamped == Max(0, Min(offset, f.size))
        g      == [f EXCEPT !.offset = (clamped \div f.blockSize) * f.blockSize]
        bufferOffset == g.blockIndex * g.blockSize
        n      == IF offset < bufferOffset \/ offset >= bufferOffset + Len(g.buffer)
                  THEN RefillBuffer(disk, g, offset \div g.blockSize)
                  ELSE [ f |-> g, raised |-> FALSE, loads |-> <<>> ]
        pos    == offset - n.f.blockIndex * n.f.blockSize
    IN  IF n.raised \/ pos < 0
        THEN [ f |-> n.f, result |-> -1, loads |-> n.loads, raised |-> TRUE ]
        ELSE LET h == [n.f EXCEPT !.bioPos = pos]
             IN  [ f |-> h, result |-> Tell(h), loads |-> n.loads, raised |-> FALSE ]

\* seek without the test of line 268: the block of the target is always
\* loaded.
Seek_AlwaysRefill(disk, f, offsetArg, whence) ==
    LET here   == Tell(f)
        offset == IF whence = SEEK_CUR THEN offsetArg + here
                  ELSE IF whence = SEEK_END THEN offsetArg + f.size
                  ELSE offsetArg
        g      == [f EXCEPT !.offset = Max(0, Min(offset, f.size))]
        n      == RefillBuffer(disk, g, offset \div g.blockSize)
        pos    == offset - n.f.blockIndex * n.f.blockSize
    IN  IF n.raised \/ pos < 0
        THEN [ f |-> n.f, result |-> -1, loads |-> n.loads, raised |-> TRUE ]
        ELSE LET h == [n.f EXCEPT !.bioPos = pos]
             IN  [ f |-> h, result |-> Tell(h), loads |-> n.loads, raised |-> FALSE ]

\* SquashFSFile.seek(offset, whence): the file afterwards, the value
\* returned, the loads done and whether an exception was raised (the failed
\* assertion of _refillBuffer, or BytesIO.seek of a negative position).
Seek(disk, f, offsetArg, whence) ==
    LET here   == Tell(f)
        offset == IF whence = SEEK_CUR THEN offsetArg + here
                  ELSE IF whence = SEEK_END THEN offsetArg + f.size
                  ELSE offsetArg
        g      == [f EXCEPT !.offset = Max(0, Min(offset, f.size))]
        bufferOffset == g.blockIndex * g.blockSize
        n      == IF offset < bufferOffset \/ offset >= bufferOffset + Len(g.buffer)
                  THEN RefillBuffer(disk, g, offset \div g.blockSize)
                  ELSE [ f |-> g, raised |-> FALSE, loads |-> <<>> ]
        pos    == offset - n.f.blockIndex * n.f.blockSize
    IN  IF n.raised \/ pos < 0
        THEN [ f |-> n.f, result |-> -1, loads |-> n.loads, raised |-> TRUE ]
        ELSE LET h == [n.f EXCEPT !.bioPos = pos]
             IN  [ f |-> h, result |-> Tell(h), loads |-> n.loads, raised |-> FALSE ]

\* ------------------------------------------------------------------ state
VARIABLES
    image,      \* the opened image: superblock fields and the bytes behind its file object
    inode,      \* the inode of the regular file under test
    contents,   \* the bytes of that file, as the image builder packed them
    files,      \* files[t]: the SquashFSFile that caller t opened
    fdPos,      \* position of the image's one shared file object
    last,       \* the last call on files[1]: arguments, result, loads, cursor before
    truePos,    \* offset of files[1] as its caller counts it: clamped seek target plus bytes read
    stream,     \* the bytes files[1] returned since it was opened, while it was only read
    pc,         \* pc[t]: where thread t stands in read / _read_data_block
    job,        \* job[t]: thread t's read in progress and the bytes it has returned
    tree,       \* the directory tree of the image a mount source is built over
    walker,     \* the generator of SquashFSImage.__iter__: its frames and what it yielded
    index,      \* the catalog (SQLiteIndex) as the mount source drives it
    mount,      \* the SquashFSMountSource under construction: position, options, fileInfos
    archive,    \* the archive file on disk as os.stat sees it: st_size, st_mtime
    call        \* the last call on the image or the mount source: arguments and outcome

indexVars == <<tree, walker, index, mount, archive, call>>

vars == <<image, inode, contents, files, fdPos, last, truePos, stream, pc, job, indexVars>>

\* No mount source is constructed.
NoMount ==
    tree = <<>> /\ walker = <<>> /\ index = <<>> /\ mount = <<>> /\ archive = <<>> /\ call = <<>>

Size == inode.data

Clamp(offset) == Max(0, Min(offset, Size))

\* Bytes [from, from + n) of the file, up to its end; all from `from` when n < 0.
Expected(from, n) == Slice(contents, from, IF n < 0 THEN Size ELSE Min(from + n, Size))

\* What the last call leaves for the next one to remember about it.
PrevOf(l) ==
    [ seek   |-> l.op = "seek",
      target |-> IF l.op = "seek" THEN l.target ELSE 0,
      raised |-> l.raised ]

NoPrev == [ seek |-> FALSE, target |-> 0, raised |-> FALSE ]

\* The cursor of a file before a call.
Cursor(f) ==
    [ blockIndex |-> f.blockIndex, bufferLen |-> Len(f.buffer), bioPos |-> f.bioPos,
      bioLen |-> Len(f.bio) ]

\* Position of the byte source after the loads of a call.
RECURSIVE FdAfter(_, _)
FdAfter(pos, loads) ==
    IF loads = <<>> THEN pos
    ELSE FdAfter(IF Head(loads).io > 0 THEN Head(loads).fdEnd ELSE pos, Tail(loads))

\* The image is opened and the inode's file is opened once.
InitImage ==
    \E l \in InputLayouts :
        /\ image = LayoutImage(l)
        /\ inode = LayoutInode(l)
        /\ contents = LayoutContents(l)

Init ==
    /\ InitImage
    /\ files = [t \in {1} |-> NewFile(image, inode)]
    /\ fdPos = FdAfter(0, OpenFile(image, inode).loads)
    /\ last = [ op |-> "open", arg |-> 0, whence |-> SEEK_SET, target |-> 0,
                data |-> <<>>, value |-> 0, raised |-> FALSE,
                loads |-> OpenFile(image, inode).loads,
                pre |-> Cursor(FileFields(image, inode)), prev |-> NoPrev ]
    /\ truePos = 0
    /\ stream = [ onlyRead |-> TRUE, bytes |-> <<>> ]
    /\ pc = <<>>
    /\ job = <<>>
    /\ NoMount

\* ------------------------------------------- one caller, calls run whole
\* The target of a seek is its offset taken from the start, from what
\* tell() returns (line 262) or from the size (line 264).
ReadSizes == -1..MaxRead
SeekOffsets(whence) ==
    IF whence = SEEK_SET THEN -1..(Size + 1)
    ELSE IF whence = SEEK_CUR THEN {-1, 0, 1}
    ELSE {-Size - 1, -1, 0, 1}

\* file.read(size) on files[1]
DoRead(size) ==
    \E r \in { Read(image.fd, files[1], size) } :
        /\ files' = [files EXCEPT ![1] = r.f]
        /\ fdPos' = FdAfter(fdPos, r.loads)
        /\ last' = [ op |-> "read", arg |-> size, whence |-> SEEK_SET, target |-> 0,
                     data |-> r.data, value |-> 0, raised |-> r.raised, loads |-> r.loads,
                     pre |-> Cursor(files[1]), prev |-> PrevOf(last) ]
        /\ truePos' = truePos + Len(r.data)
        /\ stream' = [stream EXCEPT !.bytes = IF stream.onlyRead THEN @ \o r.data ELSE @]
        /\ UNCHANGED <<indexVars, image, inode, contents, pc, job>>

\* file.seek(offset, whence) on files[1]
DoSeek(offset, whence) ==
    \E r \in { Seek(image.fd, files[1], offset, whence) },
       target \in { IF whence = SEEK_END THEN Size + offset
                    ELSE IF whence = SEEK_CUR THEN Tell(files[1]) + offset
                    ELSE offset } :
        /\ files' = [files EXCEPT ![1] = r.f]
        /\ fdPos' = FdAfter(fdPos, r.loads)
        /\ last' = [ op |-> "seek", arg |-> offset, whence |-> whence, target |-> target,
                     data |-> <<>>, value |-> r.result, raised |-> r.raised, loads |-> r.loads,
                     pre |-> Cursor(files[1]), prev |-> NoPrev ]
        /\ truePos' = Clamp(target)
        /\ stream' = [ onlyRead |-> FALSE, bytes |-> <<>> ]
        /\ UNCHANGED <<indexVars, image, inode, contents, pc, job>>

\* file.tell() on files[1]
DoTell ==
    /\ last' = [ op |-> "tell", arg |-> 0, whence |-> SEEK_SET, target |-> 0,
                 data |-> <<>>, value |-> Tell(files[1]), raised |-> FALSE, loads |-> <<>>,
                 pre |-> Cursor(files[1]), prev |-> PrevOf(last) ]
    /\ UNCHANGED <<indexVars, image, inode, contents, files, fdPos, truePos, stream, pc, job>>

Next ==
    \/ \E size \in ReadSizes : DoRead(size)
    \/ \E whence \in {SEEK_SET, SEEK_CUR, SEEK_END} :
           \E offset \in SeekOffsets(whence) : DoSeek(offset, whence)
    \/ DoTell

Spec == Init /\ [][Next]_vars

\* ------------------------------- two threads, one file each, one image
\* Each thread reads the file it holds with read calls until a call returns
\* nothing, as the threads of test_multithreaded_reading do.  The threads
\* meet at the image's file object: _read_data_block seeks it and then reads
\* it, and SquashFSImage holds no lock, so every step of one thread may come
\* between two steps of the other.  What a thread does to its own file
\* between two uses of the file object is one step.
Threads == {1, 2}

MTReadSizes == {-1, 2}

NoPlan == [ kind |-> "empty", start |-> 0, block |-> 0, n |-> 0 ]

InitMT ==
    /\ InitImage
    /\ files = [t \in Threads |-> NewFile(image, inode)]
    /\ fdPos = FdAfter(0, OpenFile(image, inode).loads)
    /\ last = [ op |-> "open" ]
    /\ truePos = 0
    /\ stream = [ onlyRead |-> TRUE, bytes |-> <<>> ]
    /\ pc = [t \in Threads |-> "idle"]
    /\ job = [t \in Threads |->
                [ size |-> 0, result |-> <<>>, plan |-> NoPlan, returned |-> <<>>,
                  calls |-> 0, done |-> FALSE ]]
    /\ NoMount

\* The size that read passes to read1 (line 232).
Want(j) == IF j.size < 0 THEN j.size ELSE j.size - Len(j.result)

\* read1 has returned data to the loop of read (lines 232-235): an empty
\* result ends the call, which returns what it has; other data is kept and
\* the loop goes on.
MTAfterRead1(t, f, data) ==
    /\ files' = [files EXCEPT ![t] = f]
    /\ IF data = <<>>
       THEN /\ pc' = [pc EXCEPT ![t] = "idle"]
            /\ job' = [job EXCEPT ![t].returned = @ \o job[t].result,
                                  ![t].calls = 1,
                                  ![t].done = (job[t].result = <<>>)]
       ELSE /\ pc' = [pc EXCEPT ![t] = "loop"]
            /\ job' = [job EXCEPT ![t].result = @ \o data]

\* Thread t calls read(size) on its file.
MTCall(t, size) ==
    /\ pc[t] = "idle" /\ ~job[t].done
    /\ pc' = [pc EXCEPT ![t] = "loop"]
    /\ job' = [job EXCEPT ![t].size = size, ![t].result = <<>>]
    /\ UNCHANGED <<indexVars, image, inode, contents, files, fdPos, last, truePos, stream>>

\* One turn of the loop of read (line 231) with its call of read1, up to
\* the return of read1 or to the call of _read_data_block in _refillBuffer.
MTLoop(t) ==
    /\ pc[t] = "loop"
    /\ UNCHANGED <<indexVars, image, inode, contents, fdPos, last, truePos, stream>>
    /\ IF ~(job[t].size < 0 \/ Len(job[t].result) < job[t].size)
       THEN /\ pc' = [pc EXCEPT ![t] = "idle"]
            /\ job' = [job EXCEPT ![t].returned = @ \o job[t].result,
                                  ![t].calls = 1,
                                  ![t].done = (job[t].result = <<>> /\ job[t].size # 0)]
            /\ UNCHANGED files
       ELSE LET f == files[t]
                r == BytesIORead(f.bio, f.bioPos, Want(job[t]))
                g == [f EXCEPT !.bioPos = r.pos]
                h == RefillEnter(g, g.blockIndex + 1)
                plan == RefillPlan(h, h.blockIndex)
                k == RefillStore(h, RefillBytes(h, plan, <<>>))
                q == BytesIORead(k.bio, k.bioPos, Want(job[t]))
            IN  IF r.data # <<>> \/ f.buffer = <<>>
                THEN MTAfterRead1(t, g, r.data)
                ELSE IF PlanReadsSource(plan)
                THEN /\ files' = [files EXCEPT ![t] = h]
                     /\ job' = [job EXCEPT ![t].plan = plan]
                     /\ pc' = [pc EXCEPT ![t] = "seek"]
                ELSE MTAfterRead1(t, [k EXCEPT !.bioPos = q.pos], q.data)

\* _read_data_block: self._fd.seek(start)
MTFdSeek(t) ==
    /\ pc[t] = "seek"
    /\ fdPos' = job[t].plan.start
    /\ pc' = [pc EXCEPT ![t] = "read"]
    /\ UNCHANGED <<indexVars, image, inode, contents, files, last, truePos, stream, job>>

\* _read_data_block: self._fd.read(size) at the position the file object has
\* now, the decoding of what was read, and the rest of _refillBuffer and of
\* read1.
MTFdRead(t) ==
    /\ pc[t] = "read"
    /\ LET count   == SQUASHFS_COMPRESSED_SIZE_BLOCK(job[t].plan.block)
           data    == FdRead(image.fd, fdPos, count)
           decoded == DecodeBlock(data, job[t].plan.block)
           k       == RefillStore(files[t], RefillBytes(files[t], job[t].plan, decoded))
           q       == BytesIORead(k.bio, k.bioPos, Want(job[t]))
       IN  /\ fdPos' = fdPos + Len(data)
           /\ MTAfterRead1(t, [k EXCEPT !.bioPos = q.pos], q.data)
    /\ UNCHANGED <<indexVars, image, inode, contents, last, truePos, stream>>

NextMT ==
    \E t \in Threads :
        \/ \E size \in MTReadSizes : MTCall(t, size)
        \/ MTLoop(t)
        \/ MTFdSeek(t)
        \/ MTFdRead(t)

SpecMT == InitMT /\ [][NextMT]_vars

\* ----------------------------------------------------------------- claims
File == files[1]
BlockSize == image.block_size
BlockList == File.blockList

\* The last call was a read that met the end of the stream.
Exhausted == last.op = "read" /\ last.arg # 0 /\ last.data = <<>>

IsSparse(i) == i >= 0 /\ i < Len(BlockList) /\ BlockList[i + 1] = 0
IsCompressed(i) ==
    /\ i >= 0 /\ i < Len(BlockList)
    /\ BlockList[i + 1] # 0
    /\ SQUASHFS_COMPRESSED_BLOCK(BlockList[i + 1])

\* The position of the file before the last call, as its caller counts it.
PosBefore == IF last.op = "read" THEN truePos - Len(last.data) ELSE truePos

\* C1: a file that is opened and then only read, until read returns empty
\* or by one read(-1), has returned exactly its size in bytes: the contents
\* of its blocks in block order, zeros for sparse blocks, then the fragment
\* slice.
C1_ReadToExhaustion ==
    /\ (stream.onlyRead /\ Exhausted) =>
           (stream.bytes = contents /\ Len(stream.bytes) = Size)
    /\ (stream.onlyRead /\ last.op = "read" /\ last.arg = -1 /\ stream.bytes = last.data) =>
           (last.data = contents /\ Len(last.data) = Size)

C1_Witness ==
    /\ stream.onlyRead /\ Exhausted /\ last.arg > 0
    /\ stream.bytes = contents /\ Len(stream.bytes) >= 5
    /\ inode.frag_bytes > 0
    /\ \E i \in 0..(Len(BlockList) - 1) : IsSparse(i)
    /\ \E i \in 0..(Len(BlockList) - 1) : IsCompressed(i)

\* C2: a read(n) that follows a seek to an offset o in [0, size], after any
\* calls before them, returns bytes [o, min(o + n, size)) of the file (all
\* bytes from o when n is -1).
C2_SeekThenRead ==
    (last.op = "read" /\ last.prev.seek /\ last.prev.target \in 0..Size) =>
        (~last.prev.raised /\ ~last.raised
         /\ last.data = Expected(last.prev.target, last.arg))

C2_Witness ==
    /\ last.op = "read" /\ last.prev.seek /\ last.prev.target \in 1..(Size - 1)
    /\ last.arg >= 2 /\ Len(last.data) >= 2 /\ Len(last.loads) >= 1
    /\ last.data = Expected(last.prev.target, last.arg)
    /\ last.pre.bioPos > 0

\* C3: tell() returns the true offset: the clamped target of the last seek
\* (0 if none) plus the bytes that the reads since then returned.
C3_TellIsTrueOffset ==
    last.op = "tell" => last.value = truePos

\* C4: a seek from the start to an offset o in [0, size] returns o, and the
\* tell() after it returns o, whatever calls came before.
C4_SeekThenTell ==
    /\ (last.op = "seek" /\ last.whence = SEEK_SET /\ last.arg \in 0..Size) =>
           (~last.raised /\ last.value = last.arg /\ Tell(File) = last.arg)
    /\ (last.op = "tell" /\ last.prev.seek /\ last.prev.target \in 0..Size) =>
           (~last.prev.raised /\ last.value = last.prev.target)

C4_Witness ==
    /\ last.op = "tell" /\ last.prev.seek /\ last.prev.target \in 1..Size
    /\ last.value = last.prev.target
    /\ last.pre.blockIndex >= 1

\* C5: a seek whose target is below 0 or above size completes without
\* error at position 0 or size, with a block index that is not negative,
\* and the read after it returns the bytes from the clamped position.
C5_SeekClamps ==
    /\ (last.op = "seek" /\ last.target \notin 0..Size) =>
           (~last.raised /\ last.value = Clamp(last.target)
            /\ Tell(File) = Clamp(last.target) /\ File.blockIndex >= 0)
    /\ (last.op = "read" /\ last.prev.seek /\ last.prev.target \notin 0..Size) =>
           (~last.prev.raised /\ last.data = Expected(Clamp(last.prev.target), last.arg))

\* C6: read(n) with n >= 0 at position p returns exactly min(n, size - p)
\* bytes.
C6_NoShortRead ==
    (last.op = "read" /\ last.arg >= 0) =>
        Len(last.data) = Min(last.arg, Size - PosBefore)

\* C7: every load of a sparse block produces blockSize zero bytes, or the
\* remainder size - blockIndex * blockSize for the final block, and does not
\* read the byte source.
C7_SparseLoad ==
    \A k \in 1..Len(last.loads) :
        LET load == last.loads[k]
        IN  IsSparse(load.index) =>
                /\ load.io = 0
                /\ load.buffer = Zeros(Min(BlockSize, Size - load.index * BlockSize))

C7_Witness ==
    \E k \in 1..Len(last.loads) :
        /\ IsSparse(last.loads[k].index)
        /\ last.loads[k].index >= 1
        /\ last.loads[k].io = 0
        /\ Len(last.loads[k].buffer) \in 1..(BlockSize - 1)
        /\ last.loads[k].buffer = Zeros(Size - last.loads[k].index * BlockSize)

\* The image of the scenario: block size 4, file size 7, one block of 3
\* stored compressed bytes and one sparse block.
Scenario ==
    /\ BlockSize = 4 /\ Size = 7 /\ Len(inode.block_list) = 2
    /\ inode.block_list[1] = 3 /\ inode.block_list[2] = 0

\* The stored bytes of the first block of the scenario, decompressed.
ScenarioFirstBlock == Uncompress(SubSeq(image.fd, inode.start + 1, inode.start + 3))

\* C8 as stated: the scenario file read from open to exhaustion is the first
\* 3 decompressed bytes of its first block followed by 4 zero bytes.
C8_ScenarioAsStated ==
    (Scenario /\ stream.onlyRead /\ Exhausted) =>
        stream.bytes = SubSeq(ScenarioFirstBlock, 1, 3) \o Zeros(4)

\* C8 amended: the scenario file read from open to exhaustion is the 4
\* decompressed bytes of its first block followed by 3 zero bytes.
C8_Scenario ==
    (Scenario /\ stream.onlyRead /\ Exhausted) =>
        /\ Len(ScenarioFirstBlock) = 4
        /\ \A i \in 1..4 : ScenarioFirstBlock[i] # 0
        /\ stream.bytes = ScenarioFirstBlock \o Zeros(3)

C8_Witness ==
    /\ Scenario /\ stream.onlyRead /\ Exhausted
    /\ Len(stream.bytes) = 7

\* C9: a read that does not pass the end of the buffer, and a seek whose
\* target lies in the buffered block, load no block and move only the
\* cursor inside the buffer.
C9_NoReloadInsideBuffer ==
    /\ (last.op = "read" /\ last.arg >= 0
        /\ last.pre.bioPos + last.arg <= last.pre.bufferLen) =>
           /\ last.loads = <<>>
           /\ File.blockIndex = last.pre.blockIndex
           /\ Len(File.buffer) = last.pre.bufferLen
           /\ File.bioPos = last.pre.bioPos + last.arg
    /\ (last.op = "seek"
        /\ last.target >= last.pre.blockIndex * BlockSize
        /\ last.target < last.pre.blockIndex * BlockSize + last.pre.bufferLen) =>
           /\ last.loads = <<>> /\ ~last.raised
           /\ File.blockIndex = last.pre.blockIndex
           /\ Len(File.buffer) = last.pre.bufferLen
           /\ File.bioPos = last.target - last.pre.blockIndex * BlockSize

C9_Witness ==
    /\ last.op = "seek" /\ last.loads = <<>>
    /\ last.pre.blockIndex >= 1 /\ last.pre.bufferLen >= 2
    /\ last.pre.bioPos = last.pre.bufferLen
    /\ File.bioPos = 0

\* C10: every seek of the image's file object and the read that belongs to
\* it run under one lock of the image: no thread seeks or reads the file
\* object while another thread is between its seek and its read.
C10_SeekReadPairsSerialized ==
    Cardinality({ t \in DOMAIN pc : pc[t] = "read" }) <= 1

\* C11: two threads that each read their own file of one image to the end,
\* under every interleaving, each obtain exactly the bytes a sequential read
\* of the file returns.
C11_ConcurrentReadsReturnContents ==
    \A t \in DOMAIN job : job[t].done => job[t].returned = contents

\* ------------------------------------- several open files, calls run whole
\* One caller opens files of one image one after the other and reads and
\* seeks them in any order; every call runs to its end before the next.
\* Here files is the sequence of the files opened so far, stream and truePos
\* hold one entry per file, and last.before is files before the last call.
OpenCalls == {1, 2}
MultiReadSizes == {-1, 1, MaxRead}
MultiSeekOffsets == {0, image.block_size + 1}

\* The images opened here: files whose block list has the most full blocks
\* and whose tail lies in a compressed fragment block.
MultiLayouts ==
    { l \in InputLayouts :
        l.bs = 2 /\ Len(l.kinds) = MaxFullBlocks /\ l.tail = "frag" /\ l.fragKind = "comp" }

InitMulti ==
    /\ \E l \in MultiLayouts :
           /\ image = LayoutImage(l)
           /\ inode = LayoutInode(l)
           /\ contents = LayoutContents(l)
    /\ files = <<>>
    /\ fdPos = 0
    /\ last = [ op |-> "none", h |-> 0, arg |-> 0, data |-> <<>>, raised |-> FALSE,
                before |-> <<>> ]
    /\ truePos = <<>>
    /\ stream = <<>>
    /\ pc = <<>>
    /\ job = <<>>
    /\ NoMount

\* read with the cursor kept by the image instead of by the file: every
\* open file takes the cursor of the file that was read.
MultiRead_SharedCursor(h, size) ==
    /\ h \in DOMAIN files
    /\ \E r \in { Read(image.fd, files[h], size) } :
        /\ files' = [u \in DOMAIN files |-> r.f]
        /\ fdPos' = FdAfter(fdPos, r.loads)
        /\ last' = [ op |-> "read", h |-> h, arg |-> size, data |-> r.data,
                     raised |-> r.raised, before |-> files ]
        /\ truePos' = [truePos EXCEPT ![h] = @ + Len(r.data)]
        /\ stream' = [stream EXCEPT ![h].bytes = IF stream[h].onlyRead THEN @ \o r.data ELSE @]
    /\ UNCHANGED <<indexVars, image, inode, contents, pc, job>>

\* file.read(size) on the open file h
MultiRead(h, size) ==
    /\ h \in DOMAIN files
    /\ \E r \in { Read(image.fd, files[h], size) } :
        /\ files' = [files EXCEPT ![h] = r.f]
        /\ fdPos' = FdAfter(fdPos, r.loads)
        /\ last' = [ op |-> "read", h |-> h, arg |-> size, data |-> r.data,
                     raised |-> r.raised, before |-> files ]
        /\ truePos' = [truePos EXCEPT ![h] = @ + Len(r.data)]
        /\ stream' = [stream EXCEPT ![h].bytes = IF stream[h].onlyRead THEN @ \o r.data ELSE @]
    /\ UNCHANGED <<indexVars, image, inode, contents, pc, job>>

\* file.seek(offset) on the open file h
MultiSeek(h, offset) ==
    /\ h \in DOMAIN files
    /\ \E r \in { Seek(image.fd, files[h], offset, SEEK_SET) } :
        /\ files' = [files EXCEPT ![h] = r.f]
        /\ fdPos' = FdAfter(fdPos, r.loads)
        /\ last' = [ op |-> "seek", h |-> h, arg |-> offset, data |-> <<>>,
                     raised |-> r.raised, before |-> files ]
        /\ truePos' = [truePos EXCEPT ![h] = Clamp(offset)]
        /\ stream' = [stream EXCEPT ![h] = [ onlyRead |-> FALSE, bytes |-> <<>> ]]
    /\ UNCHANGED <<indexVars, image, inode, contents, pc, job>>

\* file.close() on the open file h: SquashFSFile does not override close,
\* so io.IOBase.close sets the closed flag of the object and nothing else
\* (_bufferIO stays the BytesIO of the current block).
MultiClose(h) ==
    /\ h \in DOMAIN files
    /\ files' = [files EXCEPT ![h].closed = TRUE]
    /\ last' = [ op |-> "close", h |-> h, arg |-> 0, data |-> <<>>,
                 raised |-> FALSE, before |-> files ]
    /\ UNCHANGED <<indexVars, image, inode, contents, fdPos, truePos, stream, pc, job>>

\* SquashFSMountSource.open(fileInfo): image.open(image.read_inode(...)),
\* one more SquashFSFile of the inode.
MultiOpen ==
    /\ Len(files) < Cardinality(OpenCalls)
    /\ \E r \in { OpenFile(image, inode) } :
        /\ files' = Append(files, r.f)
        /\ fdPos' = FdAfter(fdPos, r.loads)
        /\ last' = [ op |-> "open", h |-> Len(files) + 1, arg |-> 0, data |-> <<>>,
                     raised |-> r.raised, before |-> files ]
    /\ truePos' = Append(truePos, 0)
    /\ stream' = Append(stream, [ onlyRead |-> TRUE, bytes |-> <<>> ])
    /\ UNCHANGED <<indexVars, image, inode, contents, pc, job>>

NextMulti ==
    \/ MultiOpen
    \/ \E h \in OpenCalls : \E size \in MultiReadSizes : MultiRead(h, size)
    \/ \E h \in OpenCalls : \E offset \in MultiSeekOffsets : MultiSeek(h, offset)

SpecMulti == InitMulti /\ [][NextMulti]_vars

\* C12: every open returns a new file with its cursor at offset 0; an open,
\* read or seek leaves the offset, the block index, the buffer and the
\* cursor in the buffer of every other open file unchanged; and the reads of
\* a file that is only read, interleaved with calls on other files, return
\* the file's contents in order.
C12_OpenFilesIndependent ==
    /\ last.op = "open" =>
           /\ files[last.h] = NewFile(image, inode)
           /\ Tell(files[last.h]) = 0
           /\ files[last.h].blockIndex = 0 /\ files[last.h].bioPos = 0
    /\ \A u \in DOMAIN last.before :
           u # last.h =>
               /\ files[u].offset = last.before[u].offset
               /\ files[u].blockIndex = last.before[u].blockIndex
               /\ files[u].buffer = last.before[u].buffer
               /\ files[u].bio = last.before[u].bio
               /\ files[u].bioPos = last.before[u].bioPos
    /\ (last.op = "read" /\ stream[last.h].onlyRead) =>
           last.data = Expected(truePos[last.h] - Len(last.data), last.arg)
    /\ \A h \in DOMAIN stream :
           stream[h].onlyRead =>
               /\ Len(stream[h].bytes) = truePos[h]
               /\ stream[h].bytes = Slice(contents, 0, truePos[h])

C12_Witness ==
    /\ last.op = "read" /\ last.h = 2 /\ last.arg = 1 /\ Len(last.data) = 1
    /\ Len(files) = 2
    /\ stream[1].onlyRead /\ stream[2].onlyRead
    /\ truePos[1] >= 3 /\ truePos[2] >= 2 /\ truePos[1] # truePos[2]
    /\ files[1].blockIndex # files[2].blockIndex
    /\ stream[2].bytes = Slice(contents, 0, truePos[2])

\* ============================================================ the image walker
\* ------------------------------------------------ generated directory trees
\* The directory tree of a generated image: node 1 is the root directory,
\* node i > 1 is an entry of the directory parent[i] < i; the entries of one
\* directory are listed in the order of their numbers and named by their
\* number.  ino[i] is the inode the entry refers to: two entries that are
\* not directories may refer to one inode (a hard link).  unreadable names
\* a symbolic link whose target cannot be read (0: none).
EntryTypes == {"DIR", "REG", "SYMLINK", "CHRDEV", "FIFO"}

\* Where the image stores inode k: its metadata block and the offset in it.
InodeStartBlock(k) == k \div 2
InodeOffset(k) == 8 * (k % 2)

\* The size the image stores for inode k: never zero, whatever its type.
InodeSize(k) == k + 1

\* The tree tr with one more entry, of type t, in its directory p.
AddEntry(tr, p, t) ==
    [tr EXCEPT !.n = @ + 1,
               !.parent = Append(@, p),
               !.type = Append(@, t),
               !.ino = Append(@, tr.n + 1)]

\* The trees of n nodes: every entry lies in a directory listed before it.
RECURSIVE ShapedTrees(_)
ShapedTrees(n) ==
    IF n = 1
    THEN { [ n |-> 1, parent |-> <<0>>, type |-> <<"DIR">>, ino |-> <<1>>, unreadable |-> 0 ] }
    ELSE UNION { { AddEntry(tr, p, t) :
                     p \in { d \in 1..tr.n : tr.type[d] = "DIR" }, t \in EntryTypes } :
                 tr \in ShapedTrees(n - 1) }

\* The variants of a tree: as it is, with an entry b referring to the inode
\* of an earlier entry a of the same type, or with one symbolic link whose
\* target cannot be read.
TreeVariants(tr) ==
    {tr}
    \cup { [tr EXCEPT !.ino[b] = a] :
             <<a, b>> \in { x \in (2..tr.n) \X (2..tr.n) :
                              /\ x[1] < x[2]
                              /\ tr.type[x[1]] = tr.type[x[2]]
                              /\ tr.type[x[1]] # "DIR" } }
    \cup { [tr EXCEPT !.unreadable = s] : s \in { c \in 2..tr.n : tr.type[c] = "SYMLINK" } }

InputTrees ==
    UNION { TreeVariants(tr) : tr \in UNION { ShapedTrees(n) : n \in 1..MaxNodes } }

\* The entries of the directory node d from entry i on, as the listing of
\* the directory holds them.
RECURSIVE TreeEntries(_, _, _)
TreeEntries(tr, d, i) ==
    IF i > tr.n THEN <<>>
    ELSE IF tr.parent[i] = d
    THEN << [ name |-> i, type |-> tr.type[i],
              start_block |-> InodeStartBlock(tr.ino[i]),
              offset |-> InodeOffset(tr.ino[i]) ] >> \o TreeEntries(tr, d, i + 1)
    ELSE TreeEntries(tr, d, i + 1)

\* The image of a tree: the root inode of the superblock, and behind the
\* place <<start_block, offset>> of each inode its metadata and, for a
\* directory, its listing.
TreeImage(tr) ==
    [ n          |-> tr.n,
      objects    |-> Cardinality({ tr.ino[i] : i \in 1..tr.n }),
      root_inode |-> << InodeStartBlock(1), InodeOffset(1) >>,
      listing    |-> [ a \in { << InodeStartBlock(i), InodeOffset(i) >> :
                                 i \in { j \in 1..tr.n : tr.type[j] = "DIR" } } |->
                          TreeEntries(tr,
                              CHOOSE i \in 1..tr.n : a = << InodeStartBlock(i), InodeOffset(i) >>, 2) ],
      inodes     |-> [ a \in { << InodeStartBlock(tr.ino[i]), InodeOffset(tr.ino[i]) >> :
                                 i \in 1..tr.n } |->
                          LET k == CHOOSE i \in 1..tr.n :
                                       a = << InodeStartBlock(i), InodeOffset(i) >>
                          IN  [ size     |-> InodeSize(k),
                                time     |-> 10 + k,
                                readable |-> \A i \in 1..tr.n :
                                                 tr.ino[i] = k => tr.unreadable # i ] ] ]

\* PySquashfsImage.SQUASHFS_INODE_BLK / SQUASHFS_INODE_OFFSET of the
\* superblock's root inode.
SQUASHFS_INODE_BLK(root_inode) == root_inode[1]
SQUASHFS_INODE_OFFSET(root_inode) == root_inode[2]

\* --------------------------------------------------------- SquashFSImage
\* _join_inode_offset without the offset inside the metadata block.
JoinInodeOffset_BlockOnly(start_block, offset) == start_block * 2^16

\* SquashFSImage._join_inode_offset(start_block, offset); the assertions of
\* lines 334-335 hold of every address of the images walked here.
JoinInodeOffset(start_block, offset) == start_block * 2^16 + offset

\* SquashFSImage._split_inode_offset(inode_offset)
SplitInodeOffset(inode_offset) == << inode_offset \div 2^16, inode_offset % 2^16 >>

\* The object a walk yields for an entry: PySquashfsImage's File made from
\* the entry's type, its inode, its name and its parent directory (path is
\* what the chain of parents spells); a directory also holds its listing.
FileObject(type, ino, name, path, entries) ==
    [ type |-> type, name |-> name, path |-> path, size |-> ino.size, time |-> ino.time,
      readable |-> ino.readable, entries |-> entries ]

\* SquashFSImage._open_directory(start_block, offset, parent, name), with
\* parent given as the path of the parent (no parent for the root: path).
OpenDirectory(img, start_block, offset, path, name) ==
    [ inode_offset |-> JoinInodeOffset(start_block, offset),
      directory    |-> FileObject("DIR", img.inodes[<<start_block, offset>>], name, path,
                                  img.listing[<<start_block, offset>>]) ]

\* The generator of __iter__ before its first resumption.
NewWalker ==
    [ started |-> FALSE, finished |-> FALSE,
      root_directory |-> <<>>,   \* local of __iter__: <<>> or <<directory>>
      frames |-> <<>>,           \* frames of _recursive_inodes_iterator, outermost first
      enter |-> <<>>,            \* <<directory>> that `yield from` descends into when resumed
      yielded |-> <<>> ]

\* A frame of _recursive_inodes_iterator(directory): the next entry of the
\* loop and the local subdirectory (<<>> while it is unbound).
NewFrame(directory) == [ directory |-> directory, pos |-> 0, subdirectory |-> <<>> ]

\* Line 371 as if every opened subdirectory were kept by its parent, as
\* the children of a directory are in the base class.
BindSubdirectory_KeepAll(frame, directory) ==
    [frame EXCEPT !.subdirectory = @ \o <<directory>>]

\* Line 371: the local subdirectory is bound to the directory just opened.
BindSubdirectory(frame, directory) ==
    [frame EXCEPT !.subdirectory = <<directory>>]

\* `yield from` of a subdirectory put off until every frame has ended.
EnterDirectory_AfterSiblings(frames, directory) == <<NewFrame(directory)>> \o frames

\* Lines 356 and 373: `yield from self._recursive_inodes_iterator(directory)`
\* starts a frame inside the frame that runs.
EnterDirectory(frames, directory) == Append(frames, NewFrame(directory))

\* _recursive_inodes_iterator resumed, lines 367-377: the innermost frame
\* runs to its next yield; a frame whose entries are used up ends and the
\* frame around it goes on.
RECURSIVE RecursiveInodesIterator(_, _)
RecursiveInodesIterator(img, frames) ==
    IF frames = <<>> THEN [ frames |-> <<>>, item |-> <<>>, enter |-> <<>> ]
    ELSE LET top   == frames[Len(frames)]
             outer == SubSeq(frames, 1, Len(frames) - 1)
         IN  IF top.pos >= Len(top.directory.entries)
             THEN RecursiveInodesIterator(img, outer)
             ELSE LET entry == top.directory.entries[top.pos + 1]
                      start_block == entry.start_block
                      offset == entry.offset
                      next == [top EXCEPT !.pos = @ + 1]
                      path == top.directory.path \o <<entry.name>>
                  IN  IF entry.type = "DIR"
                      THEN LET o == OpenDirectory(img, start_block, offset, path, entry.name)
                           IN  [ frames |-> Append(outer, BindSubdirectory(next, o.directory)),
                                 item   |-> << [ inode_offset |-> o.inode_offset,
                                                 info |-> o.directory ] >>,
                                 enter  |-> << o.directory >> ]
                      ELSE [ frames |-> Append(outer, next),
                             item   |-> << [ inode_offset |-> JoinInodeOffset(start_block, offset),
                                             info |-> FileObject(entry.type,
                                                         img.inodes[<<start_block, offset>>],
                                                         entry.name, path, <<>>) ] >>,
                             enter  |-> <<>> ]

\* SquashFSImage.__iter__ resumed once (next() on the generator): up to the
\* next yield or to its end.
WalkerNext(img, w) ==
    IF ~w.started
    THEN LET root_block  == SQUASHFS_INODE_BLK(img.root_inode)
             root_offset == SQUASHFS_INODE_OFFSET(img.root_inode)
             o == OpenDirectory(img, root_block, root_offset, <<>>, 0)
         IN  [w EXCEPT !.started = TRUE,
                       !.root_directory = << o.directory >>,
                       !.enter = << o.directory >>,
                       !.yielded = << [ inode_offset |-> o.inode_offset, info |-> o.directory ] >>]
    ELSE LET frames == IF w.enter # <<>> THEN EnterDirectory(w.frames, w.enter[1])
                       ELSE w.frames
             a == RecursiveInodesIterator(img, frames)
         IN  [w EXCEPT !.frames = a.frames,
                       !.enter = a.enter,
                       !.finished = (a.item = <<>>),
                       !.root_directory = IF a.item = <<>> THEN <<>> ELSE @,
                       !.yielded = @ \o a.item]

\* ---------------------------------------------------- SquashFSMountSource
\* stat.S_IFDIR, stat.S_IFREG, stat.S_IFLNK and the permission bits 0o555
S_IFDIR == 16384
S_IFREG == 32768
S_IFLNK == 40960
PermissionBits == 365

\* The file-type bits of a mode (stat.S_IFMT(mode)).
S_IFMT(mode) == mode - (mode % 4096)

\* The properties is_dir, is_file and is_symlink of a yielded object.
IsDir(info) == info.type = "DIR"
IsFile(info) == info.type = "REG"
IsSymlink(info) == info.type = "SYMLINK"

\* info.readlink(): the target of a symbolic link, or an exception.
Readlink(info) ==
    IF info.readable THEN [ raised |-> FALSE, target |-> <<"target", info.name>> ]
    ELSE [ raised |-> TRUE, target |-> <<>> ]

\* _convertToRow with line 488 taking the stored size of every entry.
ConvertToRow_StoredSize(inodeOffset, info) ==
    LET link == IF IsSymlink(info) THEN Readlink(info)
                ELSE [ raised |-> FALSE, target |-> <<>> ]
        mode == IF IsSymlink(info) THEN PermissionBits + S_IFLNK
                ELSE PermissionBits + (IF IsDir(info) THEN S_IFDIR ELSE S_IFREG)
    IN  [ raised |-> link.raised,
          row    |-> [ path |-> SubSeq(info.path, 1, Len(info.path) - 1),
                       name |-> info.name,
                       offsetheader |-> inodeOffset,
                       offset |-> 0,
                       size |-> info.size,
                       mtime |-> info.time,
                       mode |-> mode,
                       type |-> 0,
                       linkname |-> link.target,
                       uid |-> 0, gid |-> 0, istar |-> FALSE, issparse |-> FALSE ] ]

\* SquashFSMountSource._convertToRow(inodeOffset, info), lines 472-508: the
\* row, or the exception of readlink.  The bits of 0o555 and of a file type
\* do not overlap, so | adds them.  The path of the entry is split at its
\* last separator into the path of the parent and the name.
ConvertToRow(inodeOffset, info) ==
    LET link == IF IsSymlink(info) THEN Readlink(info)
                ELSE [ raised |-> FALSE, target |-> <<>> ]
        mode == IF IsSymlink(info) THEN PermissionBits + S_IFLNK
                ELSE PermissionBits + (IF IsDir(info) THEN S_IFDIR ELSE S_IFREG)
    IN  [ raised |-> link.raised,
          row    |-> [ path |-> SubSeq(info.path, 1, Len(info.path) - 1),
                       name |-> info.name,
                       offsetheader |-> inodeOffset,
                       offset |-> 0,
                       size |-> IF IsFile(info) THEN info.size ELSE 0,
                       mtime |-> info.time,
                       mode |-> mode,
                       type |-> 0,
                       linkname |-> link.target,
                       uid |-> 0, gid |-> 0, istar |-> FALSE, issparse |-> FALSE ] ]

\* No virtual file is open.
NoFile ==
    /\ image = <<>> /\ inode = <<>> /\ contents = <<>> /\ files = <<>> /\ fdPos = 0
    /\ last = <<>> /\ truePos = 0 /\ stream = <<>> /\ pc = <<>> /\ job = <<>>

fileVars == <<image, inode, contents, files, fdPos, last, truePos, stream, pc, job>>

\* SquashFSMountSource.__init__ up to line 447: the image is opened and the
\* catalog has looked for an existing index and has loaded it or not.
InitIndex ==
    /\ NoFile
    /\ \E tr \in InputTrees : tree = TreeImage(tr)
    /\ walker = NewWalker
    /\ archive = <<>> /\ call = <<>>
    /\ \E loaded \in BOOLEAN :
           index = [ loaded |-> loaded, mode |-> "none", rows |-> <<>>, log |-> <<>> ]
    /\ \E writeIndex, indexFilePath, isFileObject \in BOOLEAN :
           mount = [ pc |-> "init", fileInfos |-> <<>>, error |-> "",
                     writeIndex    |-> writeIndex,       \* the argument writeIndex
                     indexFilePath |-> indexFilePath,    \* an indexFilePath is given
                     isFileObject  |-> isFileObject ]    \* fileOrPath is not a path

\* Lines 449-459 without the question whether an index was loaded.
MountInit_BuildAnyway ==
    /\ mount.pc = "init"
    /\ \E mode \in { IF mount.writeIndex /\ (mount.indexFilePath \/ ~mount.isFileObject)
                     THEN "openWritable" ELSE "openInMemory" } :
           /\ index' = [index EXCEPT !.mode = mode, !.log = Append(@, mode)]
           /\ mount' = [mount EXCEPT !.pc = "createIndex"]
    /\ UNCHANGED <<tree, walker, archive, call, fileVars>>

\* Line 456 asking for writeIndex alone.
MountInit_WriteWhenAsked ==
    /\ mount.pc = "init"
    /\ IF index.loaded
       THEN /\ index' = [index EXCEPT !.log = Append(@, "reloadIndexReadOnly")]
            /\ mount' = [mount EXCEPT !.pc = "done"]
       ELSE \E mode \in { IF mount.writeIndex THEN "openWritable" ELSE "openInMemory" } :
                /\ index' = [index EXCEPT !.mode = mode, !.log = Append(@, mode)]
                /\ mount' = [mount EXCEPT !.pc = "createIndex"]
    /\ UNCHANGED <<tree, walker, archive, call, fileVars>>

\* __init__, lines 449-459: an existing index is reloaded read-only, else a
\* writable index is opened if writeIndex is set and an index file path or
\* the path of the archive is there (line 456), else an in-memory index.
MountInit ==
    /\ mount.pc = "init"
    /\ IF index.loaded
       THEN /\ index' = [index EXCEPT !.log = Append(@, "reloadIndexReadOnly")]
            /\ mount' = [mount EXCEPT !.pc = "done"]
       ELSE \E mode \in { IF mount.writeIndex /\ (mount.indexFilePath \/ ~mount.isFileObject)
                           THEN "openWritable" ELSE "openInMemory" } :
                /\ index' = [index EXCEPT !.mode = mode, !.log = Append(@, mode)]
                /\ mount' = [mount EXCEPT !.pc = "createIndex"]
    /\ UNCHANGED <<tree, walker, archive, call, fileVars>>

\* _createIndex, lines 515-518
CreateIndexBegin ==
    /\ mount.pc = "createIndex"
    /\ index' = [index EXCEPT !.log = Append(@, "ensureIntermediaryTables")]
    /\ mount' = [mount EXCEPT !.pc = "loop", !.fileInfos = <<>>]
    /\ UNCHANGED <<tree, walker, archive, call, fileVars>>

\* The loop of _createIndex with a failed conversion skipped.
CreateIndexLoop_SkipFailed ==
    /\ mount.pc = "loop"
    /\ \E w \in { WalkerNext(tree, walker) } :
        /\ ~w.finished
        /\ walker' = w
        /\ \E r \in { ConvertToRow(w.yielded[Len(w.yielded)].inode_offset,
                                   w.yielded[Len(w.yielded)].info) } :
               mount' = IF r.raised THEN mount
                        ELSE [mount EXCEPT !.fileInfos = Append(@, r.row)]
    /\ UNCHANGED <<tree, index, archive, call, fileVars>>

\* _createIndex, lines 519-520: one turn of the loop over the image; the
\* exception of a conversion leaves _createIndex and __init__.
CreateIndexLoop ==
    /\ mount.pc = "loop"
    /\ \E w \in { WalkerNext(tree, walker) } :
        /\ ~w.finished
        /\ walker' = w
        /\ \E r \in { ConvertToRow(w.yielded[Len(w.yielded)].inode_offset,
                                   w.yielded[Len(w.yielded)].info) } :
               mount' = IF r.raised THEN [mount EXCEPT !.pc = "failed", !.error = "readlink"]
                        ELSE [mount EXCEPT !.fileInfos = Append(@, r.row)]
    /\ UNCHANGED <<tree, index, archive, call, fileVars>>

\* _createIndex with finalize called before the rows are handed over.
CreateIndexEnd_FinalizeFirst ==
    /\ mount.pc = "loop"
    /\ \E w \in { WalkerNext(tree, walker) } :
        /\ w.finished
        /\ walker' = w
    /\ index' = [index EXCEPT !.rows = mount.fileInfos,
                              !.log = @ \o <<"finalize", "setFileInfos">>]
    /\ mount' = [mount EXCEPT !.pc = "built"]
    /\ UNCHANGED <<tree, archive, call, fileVars>>

\* _createIndex, the end of the loop and lines 521-527: the rows are handed
\* to the catalog and the catalog is finalized.
CreateIndexEnd ==
    /\ mount.pc = "loop"
    /\ \E w \in { WalkerNext(tree, walker) } :
        /\ w.finished
        /\ walker' = w
    /\ index' = [index EXCEPT !.rows = mount.fileInfos,
                              !.log = @ \o <<"setFileInfos", "finalize">>]
    /\ mount' = [mount EXCEPT !.pc = "built"]
    /\ UNCHANGED <<tree, archive, call, fileVars>>

\* __init__, lines 463-465, with what indexIsLoaded() answers
MountStore ==
    /\ mount.pc = "built"
    /\ \E isLoaded \in BOOLEAN :
           index' = [index EXCEPT !.loaded = isLoaded,
                                  !.log = IF isLoaded
                                          THEN @ \o <<"storeMetadata", "reloadIndexReadOnly">>
                                          ELSE @]
    /\ mount' = [mount EXCEPT !.pc = "done"]
    /\ UNCHANGED <<tree, walker, archive, call, fileVars>>

NextIndex ==
    \/ MountInit
    \/ CreateIndexBegin
    \/ CreateIndexLoop
    \/ CreateIndexEnd
    \/ MountStore

SpecIndex == InitIndex /\ [][NextIndex]_vars

\* ------------------------------------------------------ claims on the walk
Yielded == walker.yielded

\* p is the path of q or of an entry above q.
IsPrefix(p, q) == Len(p) <= Len(q) /\ SubSeq(q, 1, Len(p)) = p

ParentPath(p) == SubSeq(p, 1, Len(p) - 1)

\* C13: walk yields in depth-first pre-order: the root directory first,
\* every other entry after the directory that contains it, and the whole
\* subtree of a directory before the next sibling of the directory.
C13_PreOrder ==
    /\ Yielded # <<>> => (Yielded[1].info.path = <<>> /\ Yielded[1].info.type = "DIR")
    /\ \A i \in 2..Len(Yielded) :
           \E j \in 1..(i - 1) :
               /\ Yielded[j].info.type = "DIR"
               /\ Yielded[j].info.path = ParentPath(Yielded[i].info.path)
    /\ \A i \in 1..Len(Yielded) : \A k \in (i + 1)..Len(Yielded) :
           IsPrefix(Yielded[i].info.path, Yielded[k].info.path) =>
               \A j \in i..k : IsPrefix(Yielded[i].info.path, Yielded[j].info.path)

\* A walk that left a subdirectory with an entry of its own and went on
\* with an entry of the directory above, after an entry before the
\* subdirectory.
C13_Witness ==
    /\ walker.finished /\ Len(Yielded) = tree.n /\ Len(Yielded) >= 4
    /\ \E i \in 2..(Len(Yielded) - 2) :
           /\ Yielded[i].info.type = "DIR"
           /\ IsPrefix(Yielded[i].info.path, Yielded[i + 1].info.path)
           /\ ~IsPrefix(Yielded[i].info.path, Yielded[i + 2].info.path)
           /\ Yielded[i + 2].info.name < Yielded[i + 1].info.name


\* The inode addresses a walk has yielded.
YieldedAddresses == { Yielded[i].inode_offset : i \in 1..Len(Yielded) }

\* The catalog has been built: _createIndex has returned.
Built == mount.pc \in {"built", "done"} /\ "finalize" \in { index.log[i] : i \in 1..Len(index.log) }

\* C14 as stated: over a complete walk no inode address is yielded twice
\* and the built catalog holds one row per filesystem object, whatever the
\* directory entries of the image refer to.
C14_NoAddressTwice ==
    /\ \A i, j \in 1..Len(Yielded) :
           Yielded[i].inode_offset = Yielded[j].inode_offset => i = j
    /\ Built => Len(index.rows) = tree.objects

\* C14: no directory entry is yielded twice and the built catalog holds one
\* row per directory entry and one for the root; the addresses yielded are
\* those of the inodes the entries refer to, so no address is yielded twice
\* when no two entries refer to one inode.
C14_OncePerEntry ==
    /\ \A i, j \in 1..Len(Yielded) :
           Yielded[i].info.path = Yielded[j].info.path => i = j
    /\ walker.finished =>
           /\ Len(Yielded) = tree.n
           /\ Cardinality(YieldedAddresses) = tree.objects
    /\ tree.objects = tree.n =>
           \A i, j \in 1..Len(Yielded) :
               Yielded[i].inode_offset = Yielded[j].inode_offset => i = j
    /\ Built =>
           /\ Len(index.rows) = tree.n
           /\ \A i, j \in 1..Len(index.rows) :
                  (index.rows[i].path = index.rows[j].path
                   /\ index.rows[i].name = index.rows[j].name) => i = j

\* A catalog built from an image of four entries in which two entries
\* refer to one inode.
C14_Witness ==
    /\ Built /\ mount.pc = "done"
    /\ tree.n = 4 /\ tree.objects = 3
    /\ Len(index.rows) = 4
    /\ \E i, j \in 1..Len(index.rows) :
           i # j /\ index.rows[i].offsetheader = index.rows[j].offsetheader


\* The paths of p and of every directory above it, the root included.
Prefixes(p) == { SubSeq(p, 1, k) : k \in 0..Len(p) }

\* The directories on the path from the root to a yielded entry: the entry
\* itself when it is a directory, and every directory above it.
PathDirectories(info) ==
    IF info.type = "DIR" THEN Prefixes(info.path) ELSE Prefixes(ParentPath(info.path))

\* The directories whose listings the suspended generator refers to: the
\* local root_directory of __iter__, and the parameter directory and the
\* local subdirectory of every frame of _recursive_inodes_iterator.  A
\* directory is named by its path.
HeldListings(w) ==
    { w.root_directory[i].path : i \in 1..Len(w.root_directory) }
    \cup { w.enter[i].path : i \in 1..Len(w.enter) }
    \cup { w.frames[i].directory.path : i \in 1..Len(w.frames) }
    \cup UNION { { w.frames[i].subdirectory[j].path : j \in 1..Len(w.frames[i].subdirectory) } :
                 i \in 1..Len(w.frames) }

\* The entry the walk has yielded last.
Current == Yielded[Len(Yielded)].info

\* C15 as stated: at every yield the listings held are exactly those of the
\* directories on the path from the root to the entry yielded.
C15_HeldExactlyPath ==
    (walker.started /\ ~walker.finished) =>
        HeldListings(walker) = PathDirectories(Current)

\* C15: at every yield the walker holds the listings of the directories on
\* the path from the root to the entry yielded and of at most one more
\* directory, the subdirectory walked last in the directory the entry lies
\* in; never more than depth + 1 listings; none after the walk has ended.
C15_HeldPathPlusOne ==
    /\ (walker.started /\ ~walker.finished) =>
           /\ PathDirectories(Current) \subseteq HeldListings(walker)
           /\ Cardinality(HeldListings(walker) \ PathDirectories(Current)) <= 1
           /\ \A x \in HeldListings(walker) \ PathDirectories(Current) :
                  /\ x # <<>>
                  /\ ParentPath(x) = ParentPath(Current.path)
                  /\ \E i \in 1..(Len(Yielded) - 1) :
                         Yielded[i].info.type = "DIR" /\ Yielded[i].info.path = x
           /\ Cardinality(HeldListings(walker)) <= Len(Current.path) + 1
    /\ walker.finished => HeldListings(walker) = {}

\* An entry two levels below the root is yielded while the listing of the
\* subdirectory walked before it in the same directory is still held.
C15_Witness ==
    /\ walker.started /\ ~walker.finished
    /\ Len(Current.path) = 2
    /\ Cardinality(HeldListings(walker) \ PathDirectories(Current)) = 1
    /\ Cardinality(HeldListings(walker)) = 3


\* ----------------------------------------------------- claims on the build
\* The calls the catalog has received.
LogEvents == { index.log[i] : i \in 1..Len(index.log) }

\* C16: when the conversion of a walked entry fails, the build ends with
\* that error at that entry: the walk is not resumed, the rows collected
\* so far are not handed to the catalog, the catalog is not finalized and
\* no metadata is stored; a finalized catalog holds a row for every entry
\* of the image.
C16_FailedEntryAbortsBuild ==
    /\ \A i \in 1..Len(Yielded) :
           (Yielded[i].info.type = "SYMLINK" /\ ~Yielded[i].info.readable) =>
               (i = Len(Yielded) /\ mount.pc = "failed")
    /\ mount.pc = "failed" =>
           /\ mount.error = "readlink"
           /\ Current.type = "SYMLINK" /\ ~Current.readable
           /\ Len(mount.fileInfos) = Len(Yielded) - 1
           /\ index.rows = <<>>
           /\ LogEvents \cap {"setFileInfos", "finalize", "storeMetadata", "reloadIndexReadOnly"} = {}
    /\ "finalize" \in LogEvents => Len(index.rows) = tree.n

\* A build that failed at a symbolic link after two entries had been
\* converted and before the last entry of the image was walked.
C16_Witness ==
    /\ mount.pc = "failed"
    /\ Len(mount.fileInfos) = 2
    /\ Len(Yielded) = 3 /\ tree.n = 4
    /\ index.rows = <<>>


\* The places of a call in the sequence of calls the catalog has received.
Positions(event) == { i \in 1..Len(index.log) : index.log[i] = event }

\* C17: the rows are handed to the catalog once, after the walk has ended,
\* one row for each yielded entry in the order of the walk; finalize is
\* called once, after the rows were handed over; metadata is stored after
\* finalize, and the catalog of a build is reloaded read-only after that.
C17_BuildOrder ==
    /\ Cardinality(Positions("setFileInfos")) <= 1
    /\ Cardinality(Positions("finalize")) <= 1
    /\ \A s \in Positions("setFileInfos") :
           /\ walker.finished /\ Len(Yielded) = tree.n
           /\ Len(index.rows) = Len(Yielded)
           /\ \A k \in 1..Len(Yielded) :
                  /\ index.rows[k].offsetheader = Yielded[k].inode_offset
                  /\ index.rows[k].name = Yielded[k].info.name
                  /\ index.rows[k].path = ParentPath(Yielded[k].info.path)
    /\ \A f \in Positions("finalize") : \E s \in Positions("setFileInfos") : s < f
    /\ \A m \in Positions("storeMetadata") : \E f \in Positions("finalize") : f < m
    /\ \A r \in Positions("reloadIndexReadOnly") :
           \/ index.log = <<"reloadIndexReadOnly">>
           \/ \E m \in Positions("storeMetadata") : m < r

\* A build of an image of four entries that has stored its metadata and
\* has reloaded the catalog.
C17_Witness ==
    /\ mount.pc = "done"
    /\ Len(index.rows) = 4 /\ tree.n = 4
    /\ Positions("finalize") # {}
    /\ Positions("storeMetadata") # {}
    /\ index.log[Len(index.log)] = "reloadIndexReadOnly"


\* The size the image stores for the inode a row refers to.
StoredSize(row) == tree.inodes[SplitInodeOffset(row.offsetheader)].size

\* The rows of a build agree with C18: the k-th row belongs to the k-th
\* yielded entry.
SizesByType(rows) ==
    \A k \in 1..Len(rows) :
        /\ StoredSize(rows[k]) > 0
        /\ rows[k].size = IF Yielded[k].info.type = "REG" THEN StoredSize(rows[k]) ELSE 0

\* C18: the size of a row is the size the image stores for the entry when
\* the entry is a regular file and 0 for every other type, although the
\* image stores a size other than 0 for every entry.
C18_SizeOnlyForRegularFiles ==
    /\ Len(mount.fileInfos) <= Len(Yielded) /\ SizesByType(mount.fileInfos)
    /\ Len(index.rows) <= Len(Yielded) /\ SizesByType(index.rows)

\* A built catalog with the rows of a directory, a regular file, a
\* symbolic link and a device or fifo.
C18_Witness ==
    /\ Built
    /\ Len(index.rows) = 4
    /\ \E f, l, s \in 2..4 :
           /\ Yielded[f].info.type = "REG" /\ index.rows[f].size = InodeSize(f)
           /\ Yielded[l].info.type = "SYMLINK" /\ index.rows[l].size = 0
           /\ Yielded[s].info.type \in {"CHRDEV", "FIFO"} /\ index.rows[s].size = 0
    /\ index.rows[1].size = 0


\* C19: the file-type bits of a row tell the type of its entry, so the
\* rows of entries of two different types differ in their file-type bits,
\* and a row holds a link target exactly when its entry is a symbolic link.
C19_ModeTellsType ==
    /\ \A i, j \in 1..Len(mount.fileInfos) :
           Yielded[i].info.type # Yielded[j].info.type =>
               S_IFMT(mount.fileInfos[i].mode) # S_IFMT(mount.fileInfos[j].mode)
    /\ \A i \in 1..Len(mount.fileInfos) :
           (mount.fileInfos[i].linkname # <<>>) <=> (Yielded[i].info.type = "SYMLINK")


\* ------------------------------------------- reopening a persisted catalog
\* The largest size of the archive at the time its catalog was built, and
\* the number of changes made to the archive afterwards.
MaxArchiveSize == 3
MaxChanges == 3

Encodings == {"utf-8", "latin-1"}

\* What the first file of the catalog does when _tryToOpenFirstFile looks
\* for it, opens it and reads one byte.
ProbeOutcomes ==
    {"no rows", "no fileInfo", "getFileInfo raises", "open raises", "read raises", "read"}

\* The metadata of a catalog built over an archive with the stats st and
\* the encoding e: each key is there (<<value>>) or missing (<<>>).
Metadata(st, e, withStats, withArguments, withBackendName) ==
    [ tarstats    |-> IF withStats THEN << [ st_size |-> <<st.st_size>>, st_mtime |-> <<st.st_mtime>> ] >>
                      ELSE <<>>,
      arguments   |-> IF withArguments THEN << [ encoding |-> e, transformPattern |-> <<>> ] >>
                      ELSE <<>>,
      backendName |-> IF withBackendName THEN <<"SquashFSMountSource">> ELSE <<>> ]

\* SQLiteIndex.checkMetadataArguments(stored, self, ['encoding',
\* 'transformPattern']): an argument stored with another value than the
\* mount source has is an InvalidIndexError.
CheckMetadataArguments(stored, self) ==
    stored.encoding # self.encoding \/ stored.transformPattern # self.transformPattern

\* The outcomes in which getFileInfo, open or read(1) raises an exception.
FailedProbes == {"getFileInfo raises", "open raises", "read raises"}

\* _tryToOpenFirstFile without the except clause of lines 591-597 turning
\* the exception into an InvalidIndexError: the failure is passed over.
TryToOpenFirstFile_PassOver(probe) == FALSE

\* _tryToOpenFirstFile, lines 569-597: returns when the catalog has no
\* regular file (lines 574-578) or no fileInfo for it (lines 587-588); any
\* exception of getFileInfo, open or read(1) becomes an InvalidIndexError
\* (TRUE).  The file is the first row, by inode address, that the catalog
\* holds as a regular file.
TryToOpenFirstFile(probe) == probe \in FailedProbes

\* _checkMetadata with line 610 letting the loss of one byte pass.
CheckMetadata_AtLeastTwoBytes(self, metadata, archiveStats, probe) ==
    LET stats == metadata.tarstats
    IN  IF stats # <<>> /\ ~self.archiveFilePath
        THEN [ error |-> "cannot stat", probed |-> FALSE ]
        ELSE IF /\ stats # <<>> /\ stats[1].st_size # <<>>
                /\ archiveStats.st_size + 1 < stats[1].st_size[1]
        THEN [ error |-> "shrunk", probed |-> FALSE ]
        ELSE IF /\ stats # <<>> /\ self.verifyModificationTime
                /\ stats[1].st_mtime # <<>>
                /\ archiveStats.st_mtime # stats[1].st_mtime[1]
        THEN [ error |-> "mtime", probed |-> FALSE ]
        ELSE IF metadata.arguments # <<>> /\ CheckMetadataArguments(metadata.arguments[1], self)
        THEN [ error |-> "arguments", probed |-> FALSE ]
        ELSE IF metadata.backendName = <<>>
        THEN [ error |-> IF TryToOpenFirstFile(probe) THEN "first file" ELSE "",
               probed |-> TRUE ]
        ELSE [ error |-> "", probed |-> FALSE ]

\* _checkMetadata with the test of line 618 left out: the modification
\* time is compared whatever verifyModificationTime says.
CheckMetadata_AlwaysVerify(self, metadata, archiveStats, probe) ==
    LET stats == metadata.tarstats
    IN  IF stats # <<>> /\ ~self.archiveFilePath
        THEN [ error |-> "cannot stat", probed |-> FALSE ]
        ELSE IF /\ stats # <<>> /\ stats[1].st_size # <<>>
                /\ archiveStats.st_size < stats[1].st_size[1]
        THEN [ error |-> "shrunk", probed |-> FALSE ]
        ELSE IF /\ stats # <<>>
                /\ stats[1].st_mtime # <<>>
                /\ archiveStats.st_mtime # stats[1].st_mtime[1]
        THEN [ error |-> "mtime", probed |-> FALSE ]
        ELSE IF metadata.arguments # <<>> /\ CheckMetadataArguments(metadata.arguments[1], self)
        THEN [ error |-> "arguments", probed |-> FALSE ]
        ELSE IF metadata.backendName = <<>>
        THEN [ error |-> IF TryToOpenFirstFile(probe) THEN "first file" ELSE "",
               probed |-> TRUE ]
        ELSE [ error |-> "", probed |-> FALSE ]

\* SquashFSMountSource._checkMetadata(metadata), lines 599-634: the
\* InvalidIndexError it raises ("" when it returns), and whether it went
\* as far as _tryToOpenFirstFile.
CheckMetadata(self, metadata, archiveStats, probe) ==
    LET stats == metadata.tarstats
    IN  IF stats # <<>> /\ ~self.archiveFilePath
        THEN [ error |-> "cannot stat", probed |-> FALSE ]
        ELSE IF /\ stats # <<>> /\ stats[1].st_size # <<>>
                /\ archiveStats.st_size < stats[1].st_size[1]
        THEN [ error |-> "shrunk", probed |-> FALSE ]
        ELSE IF /\ stats # <<>> /\ self.verifyModificationTime
                /\ stats[1].st_mtime # <<>>
                /\ archiveStats.st_mtime # stats[1].st_mtime[1]
        THEN [ error |-> "mtime", probed |-> FALSE ]
        ELSE IF metadata.arguments # <<>> /\ CheckMetadataArguments(metadata.arguments[1], self)
        THEN [ error |-> "arguments", probed |-> FALSE ]
        ELSE IF metadata.backendName = <<>>
        THEN [ error |-> IF TryToOpenFirstFile(probe) THEN "first file" ELSE "",
               probed |-> TRUE ]
        ELSE [ error |-> "", probed |-> FALSE ]

\* A catalog was built over the archive and persisted; the mount source
\* that will reopen it has its options.
InitReopen ==
    /\ NoFile
    /\ tree = <<>> /\ walker = <<>> /\ call = <<>>
    /\ \E size \in 1..MaxArchiveSize :
           archive = [ st_size |-> size, st_mtime |-> 0, changes |-> 0 ]
    /\ \E e \in Encodings, withStats, withArguments, withBackendName \in BOOLEAN,
          probe \in ProbeOutcomes :
           index = [ metadata |-> Metadata(archive, e, withStats, withArguments, withBackendName),
                     probe    |-> probe ]
    /\ \E path, verify \in BOOLEAN :
           mount = [ pc |-> "closed",
                     archiveFilePath |-> path,
                     verifyModificationTime |-> verify,
                     encoding |-> "utf-8",
                     transformPattern |-> <<>>,
                     error |-> "", probed |-> FALSE ]

\* The archive loses its last byte.
Truncate ==
    /\ mount.pc = "closed" /\ archive.changes < MaxChanges
    /\ archive.st_size > 0
    /\ archive' = [archive EXCEPT !.st_size = @ - 1, !.st_mtime = @ + 1, !.changes = @ + 1]
    /\ UNCHANGED <<tree, walker, index, mount, call, fileVars>>

\* A byte is appended to the archive.
AppendByte ==
    /\ mount.pc = "closed" /\ archive.changes < MaxChanges
    /\ archive' = [archive EXCEPT !.st_size = @ + 1, !.st_mtime = @ + 1, !.changes = @ + 1]
    /\ UNCHANGED <<tree, walker, index, mount, call, fileVars>>

\* The archive is written anew with bytes of the same number.
Rewrite ==
    /\ mount.pc = "closed" /\ archive.changes < MaxChanges
    /\ archive' = [archive EXCEPT !.st_mtime = @ + 1, !.changes = @ + 1]
    /\ UNCHANGED <<tree, walker, index, mount, call, fileVars>>

\* The catalog is opened again: SQLiteIndex calls checkMetadata with the
\* stored metadata (line 439), and the index is loaded unless it raises.
Reopen ==
    /\ mount.pc = "closed"
    /\ \E r \in { CheckMetadata(mount, index.metadata, archive, index.probe) } :
           mount' = [mount EXCEPT !.pc = IF r.error = "" THEN "loaded" ELSE "stale",
                                  !.error = r.error,
                                  !.probed = r.probed]
    /\ UNCHANGED <<tree, walker, index, archive, call, fileVars>>

NextReopen ==
    \/ Truncate
    \/ AppendByte
    \/ Rewrite
    \/ Reopen

SpecReopen == InitReopen /\ [][NextReopen]_vars

\* The size and the modification time the catalog has stored.
StoredStats == index.metadata.tarstats[1]

\* The mount source has the default options and is given the path of the
\* archive, and the catalog holds the stats of the archive.
DefaultReopen ==
    /\ mount.archiveFilePath /\ ~mount.verifyModificationTime
    /\ index.metadata.tarstats # <<>>

\* The catalog is one a mount source with the same options has stored: it
\* holds these arguments and the name of its backend.
StoredByBackend ==
    /\ index.metadata.backendName # <<>>
    /\ index.metadata.arguments =
           << [ encoding |-> mount.encoding, transformPattern |-> mount.transformPattern ] >>

\* C20: a catalog reopened with the default options and stored stats is
\* stale because of the archive's size exactly when the archive is smaller
\* than the stored size, by one byte already; when the archive is as long
\* or longer, a catalog this mount source has stored is loaded.
C20_ShrunkIsStale ==
    (mount.pc \in {"loaded", "stale"} /\ DefaultReopen) =>
        /\ archive.st_size < StoredStats.st_size[1] =>
               (mount.pc = "stale" /\ mount.error = "shrunk")
        /\ archive.st_size >= StoredStats.st_size[1] =>
               /\ mount.error \notin {"shrunk", "mtime", "cannot stat"}
               /\ StoredByBackend => (mount.pc = "loaded" /\ mount.error = "")

\* A catalog found stale over an archive one byte shorter than stored.
C20_Witness ==
    /\ DefaultReopen /\ StoredByBackend
    /\ mount.pc = "stale" /\ mount.error = "shrunk"
    /\ archive.st_size = StoredStats.st_size[1] - 1

\* A catalog loaded over an archive that has grown and has another
\* modification time than the stored one.
C20_WitnessGrown ==
    /\ DefaultReopen /\ StoredByBackend
    /\ mount.pc = "loaded"
    /\ archive.st_size > StoredStats.st_size[1]
    /\ archive.st_mtime # StoredStats.st_mtime[1]


\* The catalog has been opened again by a mount source that can stat the
\* archive, and it holds the stats of the archive.
ReopenedWithStats ==
    /\ mount.pc \in {"loaded", "stale"}
    /\ mount.archiveFilePath
    /\ index.metadata.tarstats # <<>>

\* C21: when the archive is not shorter than stored and its modification
\* time differs from the stored one, the catalog is stale because of the
\* time exactly when verifyModificationTime is set; without it the
\* difference does not make a catalog stale, and a catalog stored by this
\* mount source is loaded.
C21_MtimeOnlyWhenVerified ==
    ReopenedWithStats =>
        /\ (/\ archive.st_size >= StoredStats.st_size[1]
            /\ archive.st_mtime # StoredStats.st_mtime[1]) =>
               /\ mount.verifyModificationTime => (mount.pc = "stale" /\ mount.error = "mtime")
               /\ ~mount.verifyModificationTime =>
                      /\ mount.error # "mtime"
                      /\ StoredByBackend => (mount.pc = "loaded" /\ mount.error = "")
        /\ mount.error = "mtime" =>
               /\ mount.verifyModificationTime
               /\ archive.st_mtime # StoredStats.st_mtime[1]

\* A catalog found stale for the modification time of an archive of the
\* stored size.
C21_Witness ==
    /\ ReopenedWithStats /\ StoredByBackend
    /\ mount.verifyModificationTime
    /\ archive.st_size = StoredStats.st_size[1]
    /\ archive.st_mtime # StoredStats.st_mtime[1]
    /\ mount.pc = "stale" /\ mount.error = "mtime"


\* The checks of _checkMetadata before line 633 pass: the archive can be
\* stated and is not shorter than stored, its modification time is the
\* stored one or is not verified, and the stored arguments are those of
\* the mount source.
EarlierChecksPass ==
    /\ index.metadata.tarstats # <<>> =>
           /\ mount.archiveFilePath
           /\ archive.st_size >= StoredStats.st_size[1]
           /\ mount.verifyModificationTime => archive.st_mtime = StoredStats.st_mtime[1]
    /\ index.metadata.arguments # <<>> =>
           /\ index.metadata.arguments[1].encoding = mount.encoding
           /\ index.metadata.arguments[1].transformPattern = mount.transformPattern

Digits == {0, 1, 2^16 - 1}

\* The start blocks tried: numbers below 2^48, and 2^48.
StartBlocks == (Digits \X Digits \X Digits) \cup { <<2^16, 0, 0>> }

\* The offsets tried, below 2^16 and not.
Offsets == {0, 1, 2^16 - 1, 2^16, 2^16 + 1}

\* _join_inode_offset(start_block, offset) for numbers of any width, lines
\* 333-336: the assertions, then the key (start_block << 16) + offset in
\* digits of 16 bits (the assertions leave nothing to carry).
JoinInodeOffsetWide(start_block, offset) ==
    IF ~(start_block[1] = 0)            \* assert start_block < 2**32
    THEN [ raised |-> "AssertionError", key |-> <<>> ]
    ELSE IF ~(offset < 2^16)            \* assert offset < 2**16
    THEN [ raised |-> "AssertionError", key |-> <<>> ]
    ELSE [ raised |-> "", key |-> << start_block[2], start_block[3], offset >> ]

NoCall == [ op |-> "none", args |-> <<>>, raised |-> "", result |-> <<>> ]

\* The block sizes of images, and what os.fstat answers for the block size
\* of the host file system (<<>>: fstat or fileno raises).
ImageBlockSizes == {256, 512, 4096}
HostBlockSizes == { <<>>, <<256>>, <<512>>, <<4096>> }

\* An image is open and a mount source stands over it; nothing was called.
InitCalls ==
    /\ NoFile
    /\ tree = <<>> /\ walker = <<>> /\ index = <<>> /\ archive = <<>>
    /\ \E block_size \in ImageBlockSizes, st_blksize \in HostBlockSizes,
          haveDeflate, haveIsal \in BOOLEAN :
           mount = [ block_size |-> block_size,     \* self.image._sblk.block_size
                     st_blksize |-> st_blksize,     \* what os.fstat answers, <<>>: it raises
                     deflate    |-> haveDeflate,    \* the module deflate was imported
                     isal_zlib  |-> haveIsal,       \* the module isal.isal_zlib was imported
                     real_root  |-> <<>>,           \* self.image._real_root, <<>>: None
                     scans      |-> 0 ]             \* calls of _dir_scan so far
    /\ call = NoCall

\* A call of _join_inode_offset
CallJoinInodeOffset(start_block, offset) ==
    /\ \E r \in { JoinInodeOffsetWide(start_block, offset) } :
           call' = [ op |-> "_join_inode_offset", args |-> <<start_block, offset>>,
                     raised |-> r.raised, result |-> r.key ]
    /\ UNCHANGED <<tree, walker, index, mount, archive, fileVars>>

\* statfs with the block size of the host alone.
Statfs_HostOnly(self) ==
    LET blockSize == IF self.st_blksize = <<>> THEN 512 ELSE self.st_blksize[1]
    IN  [ f_bsize |-> blockSize, f_frsize |-> blockSize,
          f_bfree |-> 0, f_bavail |-> 0, f_ffree |-> 0, f_favail |-> 0,
          f_namemax |-> 256 ]

\* SquashFSMountSource.statfs(), lines 550-567: blockSize is 512 unless
\* os.fstat answers (lines 552-556), then the larger of it and the block
\* size of the image.
Statfs(self) ==
    LET blockSize == Max(IF self.st_blksize = <<>> THEN 512 ELSE self.st_blksize[1],
                         self.block_size)
    IN  [ f_bsize |-> blockSize, f_frsize |-> blockSize,
          f_bfree |-> 0, f_bavail |-> 0, f_ffree |-> 0, f_favail |-> 0,
          f_namemax |-> 256 ]

\* A call of statfs()
CallStatfs ==
    /\ call' = [ op |-> "statfs", args |-> <<>>, raised |-> "", result |-> Statfs(mount) ]
    /\ UNCHANGED <<tree, walker, index, mount, archive, fileVars>>

\* The numbers of PySquashfsImage.compressor.Compression that the code
\* names, the numbers tried, and the tables `compressors` the library may
\* bring: each holds a default implementation for zlib.
ZLIB == 1
LZMA == 2
LZ4 == 5
CompressionIds == 0..7
CompressorTables == { {0, ZLIB}, {0, ZLIB, 4, 6}, {0, ZLIB, 3, 4, LZ4, 6} }

\* SquashFSImage._get_compressor(compression_id), lines 303-316, with the
\* table `compressors` of the library.  compression_id is the integer of
\* the superblock, so building the message of line 315 (str + int) raises
\* TypeError before ValueError is constructed.
GetCompressor(self, compression_id, compressors) ==
    IF compression_id = ZLIB /\ self.deflate
    THEN [ raised |-> "", decoder |-> "LibdeflateZlibDecompressor" ]
    ELSE IF compression_id = ZLIB /\ self.isal_zlib
    THEN [ raised |-> "", decoder |-> "IsalZlibDecompressor" ]
    ELSE IF compression_id = LZ4
    THEN [ raised |-> "", decoder |-> "LZ4Compressor" ]
    ELSE IF compression_id = LZMA
    THEN [ raised |-> "", decoder |-> "LZMACompressor" ]
    ELSE IF compression_id \notin compressors
    THEN [ raised |-> "TypeError", decoder |-> "" ]
    ELSE [ raised |-> "", decoder |-> "compressors" ]

\* A call of _get_compressor
CallGetCompressor(compression_id, compressors) ==
    /\ \E r \in { GetCompressor(mount, compression_id, compressors) } :
           call' = [ op |-> "_get_compressor", args |-> <<compression_id, compressors>>,
                     raised |-> r.raised, result |-> r.decoder ]
    /\ UNCHANGED <<tree, walker, index, mount, archive, fileVars>>

\* The values assigned to _root: None (<<>>) and a directory object.
RootValues == { <<>>, <<"directory">> }

\* The getter of _root scanning the image at every access.
RootGet_AlwaysScan(self) ==
    [ self   |-> [self EXCEPT !.real_root = << self.scans + 1 >>, !.scans = @ + 1],
      result |-> << self.scans + 1 >> ]

\* The getter of the property _root, lines 379-383, with _generate_root,
\* lines 327-330: the directory that the n-th call of _dir_scan returns is
\* written <<n>>.
RootGet(self) ==
    IF self.real_root = <<>>
    THEN [ self   |-> [self EXCEPT !.real_root = << self.scans + 1 >>, !.scans = @ + 1],
           result |-> << self.scans + 1 >> ]
    ELSE [ self |-> self, result |-> self.real_root ]

\* The setter of _root, lines 385-388: an assertion and nothing else.
RootSet(self, value) ==
    IF value # <<>> THEN [ self |-> self, raised |-> "AssertionError" ]
    ELSE [ self |-> self, raised |-> "" ]

\* An access of self._root
CallRootGet ==
    /\ \E r \in { RootGet(mount) } :
           /\ mount' = r.self
           /\ call' = [ op |-> "_root", args |-> <<>>, raised |-> "", result |-> r.result ]
    /\ UNCHANGED <<tree, walker, index, archive, fileVars>>

\* An assignment self._root = value
CallRootSet(value) ==
    /\ \E r \in { RootSet(mount, value) } :
           /\ mount' = r.self
           /\ call' = [ op |-> "_root =", args |-> <<value>>, raised |-> r.raised,
                        result |-> <<>> ]
    /\ UNCHANGED <<tree, walker, index, archive, fileVars>>

NextCalls ==
    \/ \E start_block \in StartBlocks, offset \in Offsets :
           CallJoinInodeOffset(start_block, offset)
    \/ CallStatfs
    \/ \E compression_id \in CompressionIds, compressors \in CompressorTables :
           CallGetCompressor(compression_id, compressors)
    \/ CallRootGet
    \/ \E value \in RootValues : CallRootSet(value)

SpecCalls == InitCalls /\ [][NextCalls]_vars

\* start_block is at most 2^48 and offset below 2^16: the range of the
\* components of an inode address.
InDocumentedRange(start_block, offset) ==
    /\ (start_block[1] < 2^16 \/ start_block = <<2^16, 0, 0>>)
    /\ offset < 2^16

\* C23: _join_inode_offset returns a key for every start_block up to 2^48
\* and every offset below 2^16, and raises a format error for every other
\* pair of components.
C23_AddressInRangeOrFormatError ==
    call.op = "_join_inode_offset" =>
        IF InDocumentedRange(call.args[1], call.args[2])
        THEN call.raised = ""
        ELSE call.raised = "FormatError"


\* The block size of the host file system as statfs takes it.
HostBlockSize == IF mount.st_blksize = <<>> THEN 512 ELSE mount.st_blksize[1]

\* C24: statfs() answers f_bsize and f_frsize as the larger of the host's
\* block size (512 when it cannot be asked) and the image's block size,
\* all counters of free blocks and files as 0 and f_namemax as 256, and
\* the step of the call changes nothing of the mount source or the image.
C24_Statfs ==
    [][ call'.op = "statfs" =>
            /\ call'.raised = ""
            /\ call'.result.f_bsize >= HostBlockSize
            /\ call'.result.f_bsize >= mount.block_size
            /\ call'.result.f_bsize \in {HostBlockSize, mount.block_size}
            /\ call'.result.f_frsize = call'.result.f_bsize
            /\ call'.result.f_bfree = 0 /\ call'.result.f_bavail = 0
            /\ call'.result.f_ffree = 0 /\ call'.result.f_favail = 0
            /\ call'.result.f_namemax = 256
            /\ mount' = mount
            /\ UNCHANGED <<tree, walker, index, archive, fileVars>> ]_vars

\* statfs() answered on a host whose block size could not be asked, over
\* an image with larger blocks than 512.
C24_Witness ==
    /\ call.op = "statfs"
    /\ mount.st_blksize = <<>> /\ mount.block_size = 4096
    /\ call.result.f_bsize = 4096


\* The methods _get_compressor knows with the table it is given.
KnownMethods(compressors) == compressors \cup {ZLIB, LZ4, LZMA}

\* C25: _get_compressor returns a decoder for every known method, for
\* zlib that of libdeflate if it is there, else that of ISA-L if it is
\* there, else the default one, and raises the error of an unknown method
\* (ValueError) for every other number, returning no decoder.
C25_DecoderOrUnsupported ==
    call.op = "_get_compressor" =>
        IF call.args[1] \in KnownMethods(call.args[2])
        THEN /\ call.raised = "" /\ call.result # ""
             /\ call.args[1] = ZLIB =>
                    call.result = IF mount.deflate THEN "LibdeflateZlibDecompressor"
                                  ELSE IF mount.isal_zlib THEN "IsalZlibDecompressor"
                                  ELSE "compressors"
        ELSE call.raised = "ValueError" /\ call.result = ""


\* C27: the image is scanned for its root at most once; every access of
\* _root returns the directory of that one scan; assigning a directory to
\* _root raises an assertion error, and no assignment changes the
\* memoized root.
C27_RootMemoized ==
    [][ /\ mount'.scans <= 1
        /\ call'.op = "_root" =>
               /\ call'.result = <<1>> /\ mount'.real_root = <<1>>
               /\ mount.real_root # <<>> => mount' = mount
        /\ call'.op = "_root =" =>
               /\ mount' = mount
               /\ call'.args[1] # <<>> => call'.raised = "AssertionError" ]_vars

\* A directory was assigned to _root in vain after the image had been
\* scanned for its root.
C27_Witness ==
    /\ call.op = "_root ="
    /\ call.args[1] # <<>> /\ call.raised = "AssertionError"
    /\ mount.real_root = <<1>> /\ mount.scans = 1


\* ------------------------------------------- claims on the table of blocks
\* The sum of the stored sizes of the blocks before block i (counted from
\* 0) of the block list; a sparse block has the descriptor 0.
RECURSIVE StoredSizeBefore(_)
StoredSizeBefore(i) ==
    IF i = 0 THEN 0
    ELSE StoredSizeBefore(i - 1)
         + (IF BlockList[i] = 0 THEN 0 ELSE SQUASHFS_COMPRESSED_SIZE_BLOCK(BlockList[i]))

\* C28: the table of compressed offsets has one entry for each block of the
\* block list; the entry of a block that is not sparse is the start of the
\* inode's data plus the stored sizes of the blocks before it that are not
\* sparse, and the bytes stored there decode to the block's part of the
\* file; the entry of a sparse block is a negative mark.
C28_CompressedOffsets ==
    /\ Len(File.compressedBlockOffsets) = Len(BlockList)
    /\ Len(BlockList) = inode.blocks
    /\ \A i \in 0..(Len(BlockList) - 1) :
           IF BlockList[i + 1] = 0
           THEN File.compressedBlockOffsets[i + 1] < 0
           ELSE /\ File.compressedBlockOffsets[i + 1] = inode.start + StoredSizeBefore(i)
                /\ ReadDataBlock(image.fd, File.compressedBlockOffsets[i + 1], BlockList[i + 1])
                     = Slice(contents, i * BlockSize, Min(Size, (i + 1) * BlockSize))

\* A file of three blocks with a sparse block between two stored blocks.
C28_Witness ==
    /\ Len(BlockList) = 3
    /\ BlockList[1] # 0 /\ BlockList[2] = 0 /\ BlockList[3] # 0
    /\ File.compressedBlockOffsets[3] =
           inode.start + SQUASHFS_COMPRESSED_SIZE_BLOCK(BlockList[1])
    /\ last.op = "read"


\* C29: a step seek(d, SEEK_CUR) lands at the position before it plus d,
\* clamped to the file, and returns that position; with d = 0 it leaves the
\* position where it was.
C29_RelativeSeekFromTruePosition ==
    [][ (last'.op = "seek" /\ last'.whence = SEEK_CUR) =>
            /\ ~last'.raised
            /\ last'.value = Clamp(truePos + last'.arg)
            /\ truePos' = Clamp(truePos + last'.arg)
            /\ last'.arg = 0 => truePos' = truePos ]_vars


\* ------------------------------------------------------- closing a file
\* Files are opened, read, sought and closed over an image whose file has
\* one full block and a fragment.
CloseLayouts ==
    { l \in InputLayouts :
        l.bs = 2 /\ Len(l.kinds) = 1 /\ l.tail = "frag" /\ l.fragKind = "comp" }

InitClose ==
    /\ \E l \in CloseLayouts :
           /\ image = LayoutImage(l)
           /\ inode = LayoutInode(l)
           /\ contents = LayoutContents(l)
    /\ files = <<>>
    /\ fdPos = 0
    /\ last = [ op |-> "none", h |-> 0, arg |-> 0, data |-> <<>>, raised |-> FALSE,
                before |-> <<>> ]
    /\ truePos = <<>>
    /\ stream = <<>>
    /\ pc = <<>>
    /\ job = <<>>
    /\ NoMount

NextClose ==
    \/ MultiOpen
    \/ \E h \in OpenCalls : \E size \in MultiReadSizes : MultiRead(h, size)
    \/ \E h \in OpenCalls : \E offset \in MultiSeekOffsets : MultiSeek(h, offset)
    \/ \E h \in OpenCalls : MultiClose(h)

SpecClose == InitClose /\ [][NextClose]_vars

\* C30: a read or a seek on a file that was closed before raises an error,
\* returns no data and leaves the cursor of the file where it was, while a
\* file that is not closed returns its contents whatever was closed.
C30_ClosedFileFails ==
    /\ (last.op \in {"read", "seek"} /\ last.before[last.h].closed) =>
           /\ last.raised
           /\ last.data = <<>>
           /\ files[last.h] = last.before[last.h]
    /\ (last.op = "read" /\ ~last.before[last.h].closed /\ stream[last.h].onlyRead) =>
           last.data = Expected(truePos[last.h] - Len(last.data), last.arg)


\* C26: when no index was loaded, openWritable is called exactly when
\* writeIndex is set and an index file path or the path of the archive is
\* given; from a file object without index file path, or without
\* writeIndex, openInMemory is called, openWritable never is, and the
\* catalog is built in that in-memory index.
C26_WritableOnlyWithPath ==
    /\ "openWritable" \in LogEvents =>
           (mount.writeIndex /\ (mount.indexFilePath \/ ~mount.isFileObject))
    /\ (mount.pc # "init" /\ index.log[1] # "reloadIndexReadOnly") =>
           /\ index.log[1] \in {"openWritable", "openInMemory"}
           /\ Cardinality(Positions("openWritable") \cup Positions("openInMemory")) = 1
           /\ ((mount.isFileObject /\ ~mount.indexFilePath) \/ ~mount.writeIndex) =>
                  (index.log[1] = "openInMemory" /\ index.mode = "openInMemory")
           /\ (mount.writeIndex /\ (mount.indexFilePath \/ ~mount.isFileObject)) =>
                  (index.log[1] = "openWritable" /\ index.mode = "openWritable")

\* A catalog built in memory by a mount source that was asked to write
\* the index but was given a file object and no index file path.
C26_Witness ==
    /\ mount.writeIndex /\ mount.isFileObject /\ ~mount.indexFilePath
    /\ Built /\ index.mode = "openInMemory"
    /\ Len(index.rows) = tree.n /\ tree.n >= 2
    /\ "openWritable" \notin LogEvents


\* How often the catalog has received a call.
Calls(event) == Cardinality(Positions(event))

\* The constructor found no index to load and opened a new one (line 452).
OpenedNew == index.log # <<>> /\ index.log[1] \in {"openWritable", "openInMemory"}

\* The constructor has ended: it returned or an exception left it.
Constructed == mount.pc \in {"done", "failed"}

\* C31 as stated: a constructor that loaded an index only reloads it
\* read-only, and every other constructor builds the index once and stores
\* the metadata once, after the build.
C31_BuildsAndStoresOnce ==
    /\ (index.log # <<>> /\ index.log[1] = "reloadIndexReadOnly") =>
           (index.log = <<"reloadIndexReadOnly">> /\ walker = NewWalker /\ index.rows = <<>>)
    /\ (Constructed /\ OpenedNew) =>
           /\ Calls("setFileInfos") = 1 /\ Calls("finalize") = 1
           /\ Calls("storeMetadata") = 1
           /\ \A m \in Positions("storeMetadata") : \E f \in Positions("finalize") : f < m

\* What C31 asks of a state of the constructor that opened a new index:
\* the build is begun once; a build that ran to its end has handed over
\* its rows once and finalized once, and its metadata is stored once,
\* after finalize and followed by the read-only reload, if the catalog
\* then answers that its index is loaded (line 463), and not at all
\* otherwise; a build that a failed entry ended has handed over nothing
\* and stored no metadata.
BuiltOnce ==
    /\ Calls("openWritable") + Calls("openInMemory") = 1
    /\ Calls("ensureIntermediaryTables") = (IF mount.pc = "createIndex" THEN 0 ELSE 1)
    /\ mount.pc \in {"built", "done"} =>
           /\ Calls("setFileInfos") = 1 /\ Calls("finalize") = 1
           /\ walker.finished /\ Len(index.rows) = tree.n
    /\ mount.pc = "done" =>
           /\ Calls("storeMetadata") = (IF index.loaded THEN 1 ELSE 0)
           /\ Calls("reloadIndexReadOnly") = Calls("storeMetadata")
           /\ index.loaded =>
                  SubSeq(index.log, Len(index.log) - 2, Len(index.log))
                      = <<"finalize", "storeMetadata", "reloadIndexReadOnly">>
    /\ mount.pc # "done" =>
           Calls("storeMetadata") = 0 /\ Calls("reloadIndexReadOnly") = 0
    /\ mount.pc \in {"createIndex", "loop", "failed"} =>
           Calls("setFileInfos") = 0 /\ Calls("finalize") = 0 /\ index.rows = <<>>

\* C31: the catalog is built only if no index was loaded. The constructor
\* that finds an index loaded ends with one read-only reload and walks
\* nothing, inserts nothing, finalizes nothing and stores no metadata; the
\* constructor that finds none opens a new index and builds it once, and
\* stores the metadata once after a build that ran to its end, given that
\* the catalog then answers that its index is loaded.
C31_BuiltIffNotLoaded ==
    [][ /\ (mount.pc = "init" /\ index.loaded) =>
               /\ mount'.pc = "done"
               /\ index'.log = <<"reloadIndexReadOnly">>
               /\ walker' = NewWalker /\ index'.rows = <<>> /\ mount'.fileInfos = <<>>
        /\ (mount.pc = "init" /\ ~index.loaded) => (OpenedNew' /\ mount'.pc = "createIndex")
        /\ (mount.pc # "init" /\ mount.pc # "done") => (OpenedNew /\ BuiltOnce') ]_vars

\* A constructor that found no index, built the catalog of an image of
\* three entries and stored its metadata.
C31_Witness ==
    /\ mount.pc = "done" /\ OpenedNew
    /\ tree.n = 3 /\ Len(index.rows) = 3
    /\ Calls("storeMetadata") = 1
    /\ index.loaded

\* A constructor that found an index loaded and has reloaded it.
C31_WitnessLoaded ==
    /\ mount.pc = "done" /\ index.loaded
    /\ index.log = <<"reloadIndexReadOnly">>
    /\ walker = NewWalker /\ tree.n = 3

====
